---- MODULE Spec2Model ----
(***************************************************************************)
(* The query tree editor of src/src/core/query.ts (class QueryBuilder and  *)
(* its base class SourceUtils) as a state machine.                         *)
(*                                                                         *)
(* Values.  A dotted path ("sub.x") is the sequence of its segments        *)
(* (<<"sub", "x">>), so String.split(".") is Len/Head/Tail.  An optional   *)
(* value is a sequence of length 0 (undefined) or 1.  Array indices are    *)
(* 0-based as in the source; +1 is added where a TLA+ sequence is read.    *)
(* A field reference (QueryFieldDef) and a schema field (FieldDef) share   *)
(* one record shape; k says which variant it is:                           *)
(*    "name"  a bare string,                                               *)
(*    "fan"   a FilteredAliasedName {name, as?, filterList?},              *)
(*    "def"   an object with a type: "turtle" (nested query), "struct",    *)
(*            or a scalar type (an inline expression or a schema leaf).    *)
(* A thrown error is a result with err = TRUE; what the handler mutated    *)
(* before it threw stays mutated.                                          *)
(***************************************************************************)
EXTENDS Integers, Sequences, FiniteSets, TLC

VARIABLES
  query,    \* QueryBuilder.query (a TurtleDef: name and pipeline)
  source,   \* SourceUtils._source (the schema; shared by reference)
  last,     \* the last call: operation, arguments, outcome, state before
  steps,    \* number of calls the run may still make
  held,     \* what the caller holds of the last getQuery(): the object it
            \* was given, and whether that object still is this.query
  output    \* what the last call returned (a text or a summary), if anything

vars == <<query, source, last, steps, held, output>>

(***************************************************************************)
(* Bounds of the model.                                                    *)
(***************************************************************************)
MaxSteps == 3
MaxInserts == 4
MaxFields == 4
MaxStages == 2
MaxFilters == 2
MaxOrderBy == 2

(***************************************************************************)
(* Optional values and small sequence helpers.                             *)
(***************************************************************************)
None == <<>>
Some(x) == <<x>>
IsSome(o) == o # <<>>
Val(o) == o[1]
OrElse(o, d) == IF o # <<>> THEN o[1] ELSE d

Last(s) == s[Len(s)]
\* Array.prototype.splice(i, 1) on a 0-based index (no effect out of range)
Splice1(s, i) == [j \in 1..(Len(s) - (IF i < Len(s) THEN 1 ELSE 0)) |->
                    IF j <= i THEN s[j] ELSE s[j + 1]]
\* Array.prototype.splice(i, 0, x) on a 0-based index
SpliceIn(s, i, x) == [j \in 1..(Len(s) + 1) |->
                        IF j <= i THEN s[j] ELSE IF j = i + 1 THEN x ELSE s[j - 1]]
\* Array.prototype.findIndex, 0-based, -1 when absent
FindIndex(s, P(_)) ==
  IF \E j \in 1..Len(s) : P(s[j])
  THEN (CHOOSE j \in 1..Len(s) : P(s[j]) /\ \A h \in 1..(j - 1) : ~P(s[h])) - 1
  ELSE -1

(***************************************************************************)
(* Records.                                                                *)
(***************************************************************************)
MkField(k, name, as, filterList, type, calc, fields, pipeline, code) ==
  [k |-> k, name |-> name, as |-> as, filterList |-> filterList, type |-> type,
   calc |-> calc, fields |-> fields, pipeline |-> pipeline, code |-> code]

Bare(path) == MkField("name", path, None, None, "", FALSE, <<>>, <<>>, "")
Fan(path, as, filterList) ==
  MkField("fan", path, as, filterList, "", FALSE, <<>>, <<>>, "")
Turtle(name, pipeline) ==
  MkField("def", name, None, None, "turtle", FALSE, <<>>, pipeline, "")
Struct(name, fields) ==
  MkField("def", name, None, None, "struct", FALSE, fields, <<>>, "")
Scalar(name, type, calc, code) ==
  MkField("def", name, None, None, type, calc, <<>>, <<>>, code)
\* what a failed schema projection stands for: every lookup in it throws
ErrorSource == MkField("def", <<"!">>, None, None, "error", FALSE, <<>>, <<>>, "")

FilterExpr(code) == [code |-> code]
Order(field, dir) == [field |-> field, dir |-> dir]
\* an orderBy array: the tree's own, or the very array of a schema
\* definition's stage (shared = Some([q |-> query path, k |-> stage index]))
OwnOrder(list) == [shared |-> None, val |-> list]
SharedOrder(q, k) == [shared |-> Some([q |-> q, k |-> k]), val |-> <<>>]

MkStage(type, fields, filterList, limit, orderBy, by) ==
  [type |-> type, fields |-> fields, filterList |-> filterList,
   limit |-> limit, orderBy |-> orderBy, by |-> by]
EmptyStage == MkStage("reduce", <<>>, None, None, None, None)

MkQuery(name, pipeline) == [name |-> name, pipeline |-> pipeline]

\* a stage path: hops from the root pipeline (stage index, field index of
\* the nested query entered), then the index of the addressed stage
MkPath(hops, s) == [hops |-> hops, s |-> s]
Hop(s, f) == [s |-> s, f |-> f]
RootPath(s) == MkPath(<<>>, s)

BLANK_QUERY == MkQuery(<<"new_query">>, <<EmptyStage>>)

(***************************************************************************)
(* The schema the editor is bound to, and the queries handed to it.        *)
(***************************************************************************)
FilterA == FilterExpr("age > 1")
FilterB == FilterExpr("total > 2")

ByRegionStage ==
  MkStage("reduce", <<Bare(<<"age">>), Bare(<<"total">>)>>, Some(<<FilterA>>),
          Some(10), Some(OwnOrder(<<Order(<<"age">>, "desc")>>)), None)
TwoStageFirst ==
  MkStage("reduce", <<Bare(<<"age">>)>>, None, None, None, Some(<<"age">>))
TwoStageSecond ==
  MkStage("reduce", <<Bare(<<"age">>)>>, None, None, None, None)

InitialSource ==
  Struct(<<"flights">>,
    << Scalar(<<"age">>, "number", FALSE, ""),
       Scalar(<<"total">>, "number", TRUE, ""),
       Turtle(<<"by_region">>, <<ByRegionStage>>),
       Turtle(<<"two_stage">>, <<TwoStageFirst, TwoStageSecond>>),
       Struct(<<"sub">>, <<Scalar(<<"x">>, "string", FALSE, "")>>) >>)

(***************************************************************************)
(* Schema navigation (class SourceUtils).                                  *)
(* A value that is used more than once is bound as the parameter of a      *)
(* local operator (LET With(x) == ... IN With(e)), the counterpart of a    *)
(* const declaration in the source.                                        *)
(***************************************************************************)
\* f.as || f.name
DisplayName(f) == IF IsSome(f.as) THEN Val(f.as) ELSE f.name

\* fields.find((f) => (f.as || f.name) === part), as a 0-based index or -1
FindField(fields, part) ==
  FindIndex(fields, LAMBDA f : DisplayName(f) = <<part>>)

\* the outcome of a lookup: the definition found, or the error thrown
\* (error is the thrown Error's message, without the name it mentions)
Thrown == [err |-> TRUE, def |-> ErrorSource, error |-> "Error"]
Found(def) == [err |-> FALSE, def |-> def, error |-> ""]
ThrownAs(message) == [Thrown EXCEPT !.error = message]

\* The lookup the schema algebra itself does for a name used in a stage:
\* it walks joined structures only.
RECURSIVE StructLookup(_, _)
StructLookup(src, path) ==
  LET With(i) ==
        IF i = -1 THEN Thrown
        ELSE IF Len(path) = 1 THEN Found(src.fields[i + 1])
        ELSE IF src.fields[i + 1].type = "struct"
             THEN StructLookup(src.fields[i + 1], Tail(path))
             ELSE Thrown
  IN With(FindField(src.fields, Head(path)))

\* Segment.nextStructDef of the schema algebra, to which
\* modifySourceForStage delegates: the output schema of one stage.  Each
\* output column carries the field's display name; a scalar comes out as a
\* plain (non-calculation) column, a nested query as a structure holding
\* the output of its pipeline; a stage that names a field the input schema
\* lacks, or selects a whole structure, has no output schema (it throws).
RECURSIVE modifySourceForStage(_, _), ProjectPipeline(_, _), OutputField(_, _)
OutputField(src, f) ==
  LET nm == IF f.k # "name" /\ IsSome(f.as) THEN Val(f.as) ELSE <<Last(f.name)>>
      Nested(o) == IF o.type = "error" THEN ErrorSource ELSE Struct(nm, o.fields)
      With(d) ==
        IF d.err \/ d.def.type \in {"struct", "error"} THEN ErrorSource
        ELSE IF d.def.type = "turtle"
             THEN Nested(ProjectPipeline(src, d.def.pipeline))
             ELSE Scalar(nm, d.def.type, FALSE, "")
  IN With(IF f.k = "def" THEN Found(f) ELSE StructLookup(src, f.name))

modifySourceForStage(stage, src) ==
  LET With(outs) ==
        IF \E i \in 1..Len(outs) : outs[i].type = "error"
        THEN ErrorSource
        ELSE Struct(src.name, outs)
  IN IF src.type = "error" THEN ErrorSource
     ELSE With([i \in 1..Len(stage.fields) |-> OutputField(src, stage.fields[i])])

\* for (const stage of pipeline) src = modifySourceForStage(stage, src)
ProjectPipeline(src, pipeline) ==
  IF pipeline = <<>> THEN src
  ELSE ProjectPipeline(modifySourceForStage(Head(pipeline), src), Tail(pipeline))

\* SourceUtils.getField.  root is this.getSource(): at a segment that names
\* a nested query the descent continues in root projected through that
\* query's pipeline (a projection that throws is the schema algebra's error).
RECURSIVE getField(_, _, _)
getField(root, src, path) ==
  LET Through(ts) ==
        IF ts.type = "error" THEN Thrown ELSE getField(root, ts, Tail(path))
      Inner(found) ==
        IF found.type = "struct" THEN getField(root, found, Tail(path))
        ELSE IF found.type = "turtle"
             THEN Through(ProjectPipeline(root, found.pipeline))
             ELSE ThrownAs("Inner segment in path is not a source")
      With(i) ==
        IF i = -1 THEN ThrownAs("Could not find")
        ELSE IF Len(path) = 1 THEN Found(src.fields[i + 1])
        ELSE Inner(src.fields[i + 1])
  IN With(FindField(src.fields, Head(path)))

\* SourceUtils.fieldDefForQueryFieldDef
fieldDefForQueryFieldDef(root, field, src) ==
  IF field.k = "def" THEN Found(field) ELSE getField(root, src, field.name)

(***************************************************************************)
(* Stage paths (../types: stagePathPop, stagePathParent).                  *)
(***************************************************************************)
\* the first hop and the path that remains
stagePathPop(path) ==
  IF path.hops = <<>>
  THEN [rest |-> None, stageIndex |-> path.s, fieldIndex |-> None]
  ELSE [rest |-> Some(MkPath(Tail(path.hops), path.s)),
        stageIndex |-> Head(path.hops).s,
        fieldIndex |-> Some(Head(path.hops).f)]

\* the path of the stage that holds the addressed pipeline, the field
\* index of that pipeline in it, and the addressed stage's index
stagePathParent(path) ==
  IF path.hops = <<>>
  THEN [parent |-> None, stageIndex |-> path.s, fieldIndex |-> None]
  ELSE [parent |-> Some(MkPath(SubSeq(path.hops, 1, Len(path.hops) - 1),
                               Last(path.hops).s)),
        stageIndex |-> path.s,
        fieldIndex |-> Some(Last(path.hops).f)]

(***************************************************************************)
(* Resolving a stage path in the tree.                                     *)
(***************************************************************************)
InRange(s, i) == i >= 0 /\ i < Len(s)
IsTurtleDef(f) == f.k = "def" /\ f.type = "turtle"

Resolved(kind, stage, field) == [kind |-> kind, stage |-> stage, field |-> field]

\* QueryBuilder.stageAtPath.  kind is "ok" (stage is the stage), "notastage"
\* (NotAStageError carrying field), or "typeerror": the walk read a property
\* of undefined, or it returned undefined and the caller will.
RECURSIVE StageIn(_, _)
StageIn(pipeline, path) ==
  LET With(p) ==
        IF ~InRange(pipeline, p.stageIndex)
        THEN Resolved("typeerror", EmptyStage, ErrorSource)
        ELSE IF p.fieldIndex = None
        THEN Resolved("ok", pipeline[p.stageIndex + 1], ErrorSource)
        ELSE IF ~InRange(pipeline[p.stageIndex + 1].fields, Val(p.fieldIndex))
        THEN Resolved("typeerror", EmptyStage, ErrorSource)
        ELSE IF ~IsTurtleDef(pipeline[p.stageIndex + 1].fields[Val(p.fieldIndex) + 1])
        THEN Resolved("notastage", EmptyStage,
                      pipeline[p.stageIndex + 1].fields[Val(p.fieldIndex) + 1])
        ELSE StageIn(pipeline[p.stageIndex + 1].fields[Val(p.fieldIndex) + 1].pipeline,
                     Val(p.rest))
  IN With(stagePathPop(path))

stageAtPath(q, path) == StageIn(q.pipeline, path)

\* the pipeline with the stage at path (which resolves) replaced
RECURSIVE PutStageIn(_, _, _)
PutStageIn(pipeline, path, st) ==
  LET With(p) ==
        IF p.fieldIndex = None
        THEN [pipeline EXCEPT ![p.stageIndex + 1] = st]
        ELSE [pipeline EXCEPT
                ![p.stageIndex + 1].fields[Val(p.fieldIndex) + 1].pipeline =
                   PutStageIn(@, Val(p.rest), st)]
  IN With(stagePathPop(path))

PutStage(q, path, st) == [q EXCEPT !.pipeline = PutStageIn(@, path, st)]

\* QueryBuilder.sourceForStageAtPath: the live schema at path
RECURSIVE SourceIn(_, _, _)
SourceIn(pipeline, src, path) ==
  LET With(p, cur) ==
        IF p.stageIndex > Len(pipeline) \/ cur.type = "error"
        THEN Thrown
        ELSE IF p.fieldIndex = None THEN Found(cur)
        ELSE IF ~InRange(pipeline, p.stageIndex)
                \/ ~InRange(pipeline[p.stageIndex + 1].fields, Val(p.fieldIndex))
                \/ ~IsTurtleDef(pipeline[p.stageIndex + 1].fields[Val(p.fieldIndex) + 1])
        THEN Thrown
        ELSE SourceIn(pipeline[p.stageIndex + 1].fields[Val(p.fieldIndex) + 1].pipeline,
                      cur, Val(p.rest))
  IN With(stagePathPop(path),
          ProjectPipeline(src, SubSeq(pipeline, 1, stagePathPop(path).stageIndex)))

sourceForStageAtPath(q, src, path) == SourceIn(q.pipeline, src, path)

(***************************************************************************)
(* The orderBy array of a tree stage.  loadQuery stores the schema         *)
(* definition's own array in the tree, so an in-place change of it (push,  *)
(* splice, assignment to an entry) is a change of the schema.              *)
(***************************************************************************)
RECURSIVE SchemaStage(_, _, _)
SchemaStage(src, q, k) ==
  LET With(f) ==
        IF Len(q) = 1 THEN f.pipeline[k + 1] ELSE SchemaStage(f, Tail(q), k)
  IN With(src.fields[FindField(src.fields, Head(q)) + 1])

RECURSIVE PutSchemaOrder(_, _, _, _)
PutSchemaOrder(src, q, k, list) ==
  LET With(i) ==
        IF Len(q) = 1
        THEN [src EXCEPT !.fields[i].pipeline[k + 1].orderBy = Some(OwnOrder(list))]
        ELSE [src EXCEPT !.fields[i] = PutSchemaOrder(@, Tail(q), k, list)]
  IN With(FindField(src.fields, Head(q)) + 1)

\* the entries of stage.orderBy ([] when it is undefined)
OrderList(st, src) ==
  IF st.orderBy = None THEN <<>>
  ELSE IF Val(st.orderBy).shared = None THEN Val(st.orderBy).val
  ELSE Val(SchemaStage(src, Val(Val(st.orderBy).shared).q,
                       Val(Val(st.orderBy).shared).k).orderBy).val

Mutated(st, src) == [st |-> st, src |-> src]

\* the stage and the schema after the array stage.orderBy (defined) has
\* been changed in place to hold list
OrderInPlace(st, src, list) ==
  IF Val(st.orderBy).shared = None
  THEN Mutated([st EXCEPT !.orderBy = Some(OwnOrder(list))], src)
  ELSE Mutated(st, PutSchemaOrder(src, Val(Val(st.orderBy).shared).q,
                                  Val(Val(st.orderBy).shared).k, list))

(***************************************************************************)
(* The editor's operations.  Each yields the tree and the schema after the *)
(* call, and whether the call threw.                                       *)
(***************************************************************************)
Ok(q, src) == [err |-> FALSE, q |-> q, src |-> src]
Err(q, src) == [err |-> TRUE, q |-> q, src |-> src]

\* QueryBuilder.nameOf
nameOf(field) == IF field.k = "name" THEN field.name ELSE DisplayName(field)

\* QueryBuilder.replaceWithDefinition (structDef defaulted to this._source)
replaceWithDefinition(q, src, path, fieldIndex) ==
  LET Replace(st, i) ==
        IF st.fields[fieldIndex + 1].k # "name" \/ i = -1 THEN Err(q, src)
        ELSE Ok(PutStage(q, path,
                  [st EXCEPT !.fields[fieldIndex + 1] = src.fields[i + 1]]), src)
      With(r) ==
        IF r.kind # "ok" \/ ~InRange(r.stage.fields, fieldIndex) THEN Err(q, src)
        ELSE Replace(r.stage,
               FindIndex(src.fields, LAMBDA def :
                 DisplayName(def) = r.stage.fields[fieldIndex + 1].name))
  IN With(stageAtPath(q, path))

\* QueryBuilder.autoExpandStageAtPath
autoExpandStageAtPath(q, src, path) ==
  LET Retry(rep) ==
        IF rep.err THEN rep
        ELSE IF stageAtPath(rep.q, path).kind = "ok" THEN rep
        ELSE Err(rep.q, rep.src)
      Promote(p, fd) ==
        IF fd.err \/ fd.def.type # "turtle" THEN Err(q, src)
        ELSE Retry(replaceWithDefinition(q, src, Val(p.rest), Val(p.fieldIndex)))
      Caught(r, p, s) ==
        IF s.err THEN Err(q, src)
        ELSE Promote(p, fieldDefForQueryFieldDef(src, r.field, s.def))
      With(r, p) ==
        IF r.kind = "ok" THEN Ok(q, src)
        ELSE IF r.kind = "typeerror" THEN Err(q, src)
        ELSE Caught(r, p, sourceForStageAtPath(q, src, Val(p.rest)))
  IN With(stageAtPath(q, path), stagePathPop(path))

\* sortOrder without the test for a calculation
sortOrderNoCalculation(def) ==
  IF def.type = "struct" THEN 3
  ELSE IF def.type = "turtle" THEN 2
  ELSE 0

\* QueryBuilder.sortOrder
sortOrder(def) ==
  IF def.type = "struct" THEN 3
  ELSE IF def.type = "turtle" THEN 2
  ELSE IF def.calc THEN 1
  ELSE 0

\* existingSortOrder >= sortOrder
SortsAfterOrEqual(existingSortOrder, newSortOrder) ==
  existingSortOrder >= newSortOrder

\* existingSortOrder > sortOrder
SortsAfter(existingSortOrder, newSortOrder) == existingSortOrder > newSortOrder

\* the loop body without the try: a field that does not resolve ends the scan
InsertBeforeUnresolved(src, stageSource, existingField, newSortOrder) ==
  LET With(ed) == ed.err \/ SortsAfter(sortOrder(ed.def), newSortOrder)
  IN With(fieldDefForQueryFieldDef(src, existingField, stageSource))

\* the loop body of getIndexToInsertNewField: existingField resolves in
\* stageSource and sorts after the new field
InsertBefore(src, stageSource, existingField, newSortOrder) ==
  LET With(ed) == ~ed.err /\ SortsAfter(sortOrder(ed.def), newSortOrder)
  IN With(fieldDefForQueryFieldDef(src, existingField, stageSource))

\* QueryBuilder.getIndexToInsertNewField
getIndexToInsertNewField(q, src, path, field) ==
  LET Index(fields, i) ==
        [err |-> FALSE, index |-> IF i = -1 THEN Len(fields) ELSE i]
      Scan(r, s, fd) ==
        IF fd.err THEN [err |-> TRUE, index |-> 0]
        ELSE Index(r.stage.fields,
               FindIndex(r.stage.fields, LAMBDA existingField :
                 InsertBefore(src, s.def, existingField, sortOrder(fd.def))))
      With(r, s) ==
        IF r.kind # "ok" \/ s.err THEN [err |-> TRUE, index |-> 0]
        ELSE Scan(r, s, fieldDefForQueryFieldDef(src, field, s.def))
  IN With(stageAtPath(q, path), sourceForStageAtPath(q, src, path))

\* QueryBuilder.insertField
insertField(q, src, path, field) ==
  LET Insert(a, st, g) ==
        IF g.err THEN Err(a.q, a.src)
        ELSE Ok(PutStage(a.q, path,
                  [st EXCEPT !.fields = SpliceIn(st.fields, g.index, field)]), a.src)
      With(a) ==
        IF a.err THEN a
        ELSE Insert(a, stageAtPath(a.q, path).stage,
                    getIndexToInsertNewField(a.q, a.src, path, field))
  IN With(autoExpandStageAtPath(q, src, path))

\* QueryBuilder.addField
addField(q, src, path, fieldPath) == insertField(q, src, path, Bare(fieldPath))

\* QueryBuilder.addNewNestedQuery
addNewNestedQuery(q, src, path, name) ==
  insertField(q, src, path, Turtle(name, <<EmptyStage>>))

\* QueryBuilder.addNewField
addNewField(q, src, path, definition) == insertField(q, src, path, definition)

\* removeField: the orderBy entries after the splice of the first one that
\* names the field
withoutOrderOf(list, name) ==
  LET With(orderIndex) ==
        IF orderIndex # -1 THEN Splice1(list, orderIndex) ELSE list
  IN With(FindIndex(list, LAMBDA order : order.field = name))

\* QueryBuilder.removeField
removeField(q, src, path, fieldIndex) ==
  LET Remove(st, o) ==
        Ok(PutStage(q, path, [o.st EXCEPT !.fields = Splice1(st.fields, fieldIndex)]),
           o.src)
      Search(st, list) ==
        IF list # <<>> /\ ~InRange(st.fields, fieldIndex) THEN Err(q, src)
        ELSE IF list = <<>> THEN Remove(st, Mutated(st, src))
        ELSE Remove(st, OrderInPlace(st, src,
                          withoutOrderOf(list, nameOf(st.fields[fieldIndex + 1]))))
      With(r) ==
        IF r.kind # "ok" THEN Err(q, src)
        ELSE IF r.stage.type = "reduce" /\ IsSome(r.stage.orderBy)
        THEN Search(r.stage, OrderList(r.stage, src))
        ELSE Remove(r.stage, Mutated(r.stage, src))
  IN With(stageAtPath(q, path))

\* QueryBuilder.getFieldIndex (-1 for undefined)
getFieldIndex(q, path, fieldPath) ==
  FindIndex(stageAtPath(q, path).stage.fields, LAMBDA f : f = Bare(fieldPath))

\* toggleField without the test for a present field
toggleFieldAdds(q, src, path, fieldPath) ==
  LET With(a) == IF a.err THEN a ELSE addField(a.q, a.src, path, fieldPath)
  IN With(autoExpandStageAtPath(q, src, path))

\* QueryBuilder.toggleField
toggleField(q, src, path, fieldPath) ==
  LET Toggle(a, fieldIndex) ==
        IF fieldIndex # -1 THEN removeField(a.q, a.src, path, fieldIndex)
        ELSE addField(a.q, a.src, path, fieldPath)
      With(a) ==
        IF a.err THEN a ELSE Toggle(a, getFieldIndex(a.q, path, fieldPath))
  IN With(autoExpandStageAtPath(q, src, path))

\* renameField without the loop over stage.orderBy
renameOrdersSkipped(list, fieldName, as) == list

\* renameField: the orderBy entries with fieldName rewritten to as
renameOrders(list, fieldName, as) ==
  [j \in 1..Len(list) |->
     IF list[j].field = fieldName THEN [list[j] EXCEPT !.field = as] ELSE list[j]]

\* renameField: the field carrying the new name
renamed(field, as) ==
  IF field.k = "name" THEN Fan(field.name, Some(as), None)
  ELSE [field EXCEPT !.as = Some(as)]

\* QueryBuilder.renameField
renameField(q, src, path, fieldIndex, as) ==
  LET Rename(st, o) ==
        Ok(PutStage(q, path,
             [o.st EXCEPT !.fields[fieldIndex + 1] = renamed(st.fields[fieldIndex + 1], as)]),
           o.src)
      With(r) ==
        IF r.kind # "ok" \/ r.stage.type # "reduce"
           \/ ~InRange(r.stage.fields, fieldIndex)
        THEN Err(q, src)
        ELSE IF IsSome(r.stage.orderBy)
        THEN Rename(r.stage,
               OrderInPlace(r.stage, src,
                 renameOrders(OrderList(r.stage, src),
                              nameOf(r.stage.fields[fieldIndex + 1]), as)))
        ELSE Rename(r.stage, Mutated(r.stage, src))
  IN With(stageAtPath(q, path))

\* QueryBuilder.addFilter
addFilter(q, src, path, filter) ==
  LET Add(a, st) ==
        Ok(PutStage(a.q, path,
             [st EXCEPT !.filterList = Some(Append(OrElse(@, <<>>), filter))]), a.src)
      With(a) == IF a.err THEN a ELSE Add(a, stageAtPath(a.q, path).stage)
  IN With(autoExpandStageAtPath(q, src, path))

\* list.push(filter) in the place of list[filterIndex] = filter
putFilterPushed(list, filterIndex, filter) == Append(list, filter)

\* list[filterIndex] = filter (filterIndex at most the length of the list)
putFilter(list, filterIndex, filter) ==
  IF filterIndex < Len(list) THEN [list EXCEPT ![filterIndex + 1] = filter]
  ELSE Append(list, filter)

\* QueryBuilder.editFilter
editFilter(q, src, path, fieldIndex, filterIndex, filter) ==
  LET OfField(st, field) ==
        IF field.k # "fan" \/ field.filterList = None THEN Err(q, src)
        ELSE Ok(PutStage(q, path,
                  [st EXCEPT !.fields[Val(fieldIndex) + 1].filterList =
                     Some(putFilter(Val(@), filterIndex, filter))]), src)
      With(r) ==
        IF r.kind # "ok" THEN Err(q, src)
        ELSE IF fieldIndex = None
        THEN IF r.stage.filterList = None THEN Err(q, src)
             ELSE Ok(PutStage(q, path,
                       [r.stage EXCEPT !.filterList =
                          Some(putFilter(Val(@), filterIndex, filter))]), src)
        ELSE IF ~InRange(r.stage.fields, Val(fieldIndex)) THEN Err(q, src)
        ELSE OfField(r.stage, r.stage.fields[Val(fieldIndex) + 1])
  IN With(stageAtPath(q, path))

\* field.filterList?.splice(fieldIndex, 1)
spliceFieldFilter(list, filterIndex, fieldIndex) == Splice1(list, fieldIndex)

\* QueryBuilder.removeFilter
removeFilter(q, src, path, filterIndex, fieldIndex) ==
  LET OfField(st, field) ==
        IF field.k # "fan" \/ field.filterList = None THEN Ok(q, src)
        ELSE Ok(PutStage(q, path,
                  [st EXCEPT !.fields[Val(fieldIndex) + 1].filterList =
                     Some(spliceFieldFilter(Val(@), filterIndex, Val(fieldIndex)))]),
                src)
      With(r) ==
        IF r.kind # "ok" THEN Err(q, src)
        ELSE IF fieldIndex = None
        THEN IF r.stage.filterList = None THEN Ok(q, src)
             ELSE Ok(PutStage(q, path,
                       [r.stage EXCEPT !.filterList =
                          Some(Splice1(Val(@), filterIndex))]), src)
        ELSE IF ~InRange(r.stage.fields, Val(fieldIndex)) THEN Err(q, src)
        ELSE OfField(r.stage, r.stage.fields[Val(fieldIndex) + 1])
  IN With(stageAtPath(q, path))

\* QueryBuilder.addLimit (byField is the optional SchemaField's path)
addLimit(q, src, path, limit, byField, direction) ==
  LET Add(a, st) ==
        IF st.type # "reduce" THEN Err(a.q, a.src)
        ELSE Ok(PutStage(a.q, path,
                  [st EXCEPT !.limit = Some(limit),
                             !.orderBy =
                                IF IsSome(byField)
                                THEN Some(OwnOrder(<<Order(Val(byField), direction)>>))
                                ELSE @]), a.src)
      With(a) == IF a.err THEN a ELSE Add(a, stageAtPath(a.q, path).stage)
  IN With(autoExpandStageAtPath(q, src, path))

\* stage.orderBy = stage.orderBy || []
withOrderBy(st) ==
  IF st.orderBy = None THEN [st EXCEPT !.orderBy = Some(OwnOrder(<<>>))] ELSE st

\* addOrderBy that leaves the direction out of the entry
addOrderByUndirected(q, src, path, byFieldIndex, direction) ==
  LET Push(a, o) == Ok(PutStage(a.q, path, o.st), o.src)
      Add(a, st, st1) ==
        IF st.type # "reduce" THEN Err(a.q, a.src)
        ELSE IF ~InRange(st.fields, byFieldIndex)
        THEN Err(PutStage(a.q, path, st1), a.src)
        ELSE Push(a, OrderInPlace(st1, a.src,
                       Append(OrderList(st1, a.src),
                              Order(nameOf(st.fields[byFieldIndex + 1]), ""))))
      With(a) ==
        IF a.err THEN a
        ELSE Add(a, stageAtPath(a.q, path).stage,
                 withOrderBy(stageAtPath(a.q, path).stage))
  IN With(autoExpandStageAtPath(q, src, path))

\* QueryBuilder.addOrderBy
addOrderBy(q, src, path, byFieldIndex, direction) ==
  LET Push(a, o) == Ok(PutStage(a.q, path, o.st), o.src)
      Add(a, st, st1) ==
        IF st.type # "reduce" THEN Err(a.q, a.src)
        ELSE IF ~InRange(st.fields, byFieldIndex)
        THEN Err(PutStage(a.q, path, st1), a.src)
        ELSE Push(a, OrderInPlace(st1, a.src,
                       Append(OrderList(st1, a.src),
                              Order(nameOf(st.fields[byFieldIndex + 1]), direction))))
      With(a) ==
        IF a.err THEN a
        ELSE Add(a, stageAtPath(a.q, path).stage,
                 withOrderBy(stageAtPath(a.q, path).stage))
  IN With(autoExpandStageAtPath(q, src, path))

\* QueryBuilder.editOrderBy
editOrderBy(q, src, path, orderByIndex, direction) ==
  LET Put(o) == Ok(PutStage(q, path, o.st), o.src)
      Edit(st1, list) ==
        IF ~InRange(list, orderByIndex) THEN Err(PutStage(q, path, st1), src)
        ELSE Put(OrderInPlace(st1, src,
                   [list EXCEPT ![orderByIndex + 1] = Order(@.field, direction)]))
      With(r) ==
        IF r.kind # "ok" \/ r.stage.type # "reduce" THEN Err(q, src)
        ELSE Edit(withOrderBy(r.stage), OrderList(r.stage, src))
  IN With(stageAtPath(q, path))

\* QueryBuilder.removeLimit
removeLimit(q, src, path) ==
  LET With(r) ==
        IF r.kind # "ok" THEN Err(q, src)
        ELSE Ok(PutStage(q, path, [r.stage EXCEPT !.limit = None]), src)
  IN With(stageAtPath(q, path))

\* QueryBuilder.removeOrderBy
removeOrderBy(q, src, path, orderingIndex) ==
  LET Put(o) == Ok(PutStage(q, path, o.st), o.src)
      With(r) ==
        IF r.kind # "ok" \/ r.stage.type # "reduce" THEN Err(q, src)
        ELSE IF r.stage.orderBy = None THEN Ok(q, src)
        ELSE Put(OrderInPlace(r.stage, src,
                   Splice1(OrderList(r.stage, src), orderingIndex)))
  IN With(stageAtPath(q, path))

\* QueryBuilder.addStage; path and fieldIndex are optional
addStage(q, src, path, fieldIndex) ==
  LET Push(rep, st) ==
        \* query.pipeline.push: only a nested query has a pipeline
        IF ~IsTurtleDef(st.fields[Val(fieldIndex) + 1]) THEN Err(rep.q, rep.src)
        ELSE Ok(PutStage(rep.q, Val(path),
                  [st EXCEPT !.fields[Val(fieldIndex) + 1].pipeline =
                     Append(@, EmptyStage)]), rep.src)
      Replaced(rep) ==
        IF rep.err THEN rep ELSE Push(rep, stageAtPath(rep.q, Val(path)).stage)
      Checked(field, fd) ==
        IF fd.err \/ fd.def.type # "turtle" THEN Err(q, src)
        ELSE IF field.k = "def" THEN Replaced(Ok(q, src))
        ELSE Replaced(replaceWithDefinition(q, src, Val(path), Val(fieldIndex)))
      With(r, s) ==
        IF r.kind # "ok" \/ fieldIndex = None
           \/ ~InRange(r.stage.fields, Val(fieldIndex)) \/ s.err
        THEN Err(q, src)
        ELSE Checked(r.stage.fields[Val(fieldIndex) + 1],
               fieldDefForQueryFieldDef(src, r.stage.fields[Val(fieldIndex) + 1], s.def))
  IN IF path = None THEN Ok([q EXCEPT !.pipeline = Append(@, EmptyStage)], src)
     ELSE With(stageAtPath(q, Val(path)), sourceForStageAtPath(q, src, Val(path)))

\* if (query.pipeline.length === 0) query.pipeline.push({type: "reduce", fields: []})
refill(pipeline) == IF Len(pipeline) = 0 THEN <<EmptyStage>> ELSE pipeline

\* QueryBuilder.removeStage
removeStage(q, src, path) ==
  LET Nested(p, r) ==
        IF r.kind # "ok" \/ ~InRange(r.stage.fields, Val(p.fieldIndex)) THEN Err(q, src)
        ELSE IF ~IsTurtleDef(r.stage.fields[Val(p.fieldIndex) + 1]) THEN Err(q, src)
        ELSE Ok(PutStage(q, Val(p.parent),
                  [r.stage EXCEPT !.fields[Val(p.fieldIndex) + 1].pipeline =
                     refill(Splice1(@, p.stageIndex))]), src)
      With(p) ==
        IF p.parent = None
        THEN Ok([q EXCEPT !.pipeline = refill(Splice1(@, p.stageIndex))], src)
        ELSE Nested(p, stageAtPath(q, Val(p.parent)))
  IN With(stagePathParent(path))

\* QueryBuilder.canRun; a thrown TypeError (no first stage) is err
canRun(q) ==
  IF q.pipeline = <<>> THEN [err |-> TRUE, value |-> FALSE]
  ELSE [err |-> FALSE, value |-> Len(q.pipeline[1].fields) > 0]

\* loadQuery: the merged filter list
mergeFilterList(existingFilterList, stageFilterList) ==
  OrElse(existingFilterList, <<>>)
    \o SelectSeq(stageFilterList, LAMBDA filter :
         ~\E j \in 1..Len(OrElse(existingFilterList, <<>>)) :
            OrElse(existingFilterList, <<>>)[j].code = filter.code)

\* loadQuery with the loaded fields put after the existing ones
mergeFieldsAppended(existingFields, stageFields) ==
  SelectSeq(existingFields, LAMBDA field :
    ~\E j \in 1..Len(stageFields) : nameOf(stageFields[j]) = nameOf(field))
    \o stageFields

\* loadQuery: the merged field list
mergeFields(existingFields, stageFields) ==
  stageFields
    \o SelectSeq(existingFields, LAMBDA field :
         ~\E j \in 1..Len(stageFields) : nameOf(stageFields[j]) = nameOf(field))

\* loadQuery: stage.by and stage.orderBy of the definition's stage k
mergeOrdering(existingStage, stage, queryPath, k) ==
  [existingStage EXCEPT
     !.by = IF IsSome(stage.orderBy) THEN None
            ELSE IF IsSome(stage.by) THEN stage.by ELSE @,
     !.orderBy = IF IsSome(stage.orderBy) THEN Some(SharedOrder(queryPath, k))
                 ELSE IF IsSome(stage.by) THEN None ELSE @]

\* loadQuery overwriting an existing stage with the definition's
mergeStageOverwrites(existingStage, stage, queryPath, k) ==
  [stage EXCEPT !.orderBy = IF IsSome(@) THEN Some(SharedOrder(queryPath, k)) ELSE @]

\* loadQuery: the merge of the definition's stage k into an existing stage
mergeStage(existingStage, stage, queryPath, k) ==
  [mergeOrdering(existingStage, stage, queryPath, k) EXCEPT
     !.filterList = IF IsSome(stage.filterList)
                    THEN Some(mergeFilterList(@, Val(stage.filterList))) ELSE @,
     !.limit = IF IsSome(stage.limit) /\ Val(stage.limit) # 0 THEN stage.limit ELSE @,
     !.fields = mergeFields(@, stage.fields)]

\* loadQuery: definition.pipeline.forEach from stage index k on
RECURSIVE loadStages(_, _, _, _, _)
loadStages(q, src, queryPath, pipeline, k) ==
  IF k >= Len(pipeline) THEN Ok(q, src)
  ELSE IF ~InRange(q.pipeline, k)
  THEN loadStages([q EXCEPT !.pipeline = Append(@, pipeline[k + 1])],
                  src, queryPath, pipeline, k + 1)
  ELSE IF q.pipeline[k + 1].type # "reduce" \/ pipeline[k + 1].type # "reduce"
  THEN Err(q, src)
  ELSE loadStages([q EXCEPT !.pipeline[k + 1] =
                     mergeStage(@, pipeline[k + 1], queryPath, k)],
                  src, queryPath, pipeline, k + 1)

\* QueryBuilder.loadQuery
loadQuery(q, src, queryPath) ==
  LET Named(definition, l) ==
        IF l.err THEN l
        ELSE Ok([l.q EXCEPT !.name = DisplayName(definition.def)], l.src)
      With(definition) ==
        IF definition.err \/ definition.def.type # "turtle" THEN Err(q, src)
        ELSE Named(definition,
                   loadStages(q, src, queryPath, definition.def.pipeline, 0))
  IN With(getField(src, src, queryPath))

\* replaceQuery keeping the first stage's filters whatever the old tree holds
carriedFiltersAlways(q) ==
  IF Len(q.pipeline) >= 1 THEN OrElse(q.pipeline[1].filterList, <<>>) ELSE <<>>

\* replaceQuery: the filters of the old tree that are kept
carriedFilters(q) ==
  IF Len(q.pipeline) = 1 /\ Len(q.pipeline[1].fields) = 0
  THEN OrElse(q.pipeline[1].filterList, <<>>)
  ELSE <<>>

\* QueryBuilder.replaceQuery (field is a nested query of the schema)
replaceQuery(q, src, field) ==
  IF field.pipeline = <<>> THEN Err(q, src)
  ELSE Ok(MkQuery(DisplayName(field),
            [field.pipeline EXCEPT ![1].filterList =
               Some(carriedFilters(q) \o OrElse(@, <<>>))]), src)

\* QueryBuilder.setQuery (query is a NamedQuery built for this call)
setQuery(q, src, named) == Ok(MkQuery(named.name, named.pipeline), src)

\* QueryBuilder.clearQuery
clearQuery(q, src) == Ok(BLANK_QUERY, src)

\* QueryBuilder.reorderFields (order lists indices of the field list)
reorderFields(q, src, path, order) ==
  LET With(r) ==
        IF r.kind # "ok" THEN Err(q, src)
        ELSE Ok(PutStage(q, path,
                  [r.stage EXCEPT !.fields =
                     [j \in 1..Len(order) |-> r.stage.fields[order[j] + 1]]]), src)
  IN With(stageAtPath(q, path))

\* QueryBuilder.replaceSavedField (fieldIndex within the field list)
replaceSavedField(q, src, path, fieldIndex, name) ==
  LET With(r) ==
        IF r.kind # "ok" THEN Err(q, src)
        ELSE Ok(PutStage(q, path,
                  [r.stage EXCEPT !.fields[fieldIndex + 1] = Bare(name)]), src)
  IN With(stageAtPath(q, path))

\* QueryBuilder.editFieldDefinition (fieldIndex within the field list)
editFieldDefinition(q, src, path, fieldIndex, definition) ==
  LET With(r) ==
        IF r.kind # "ok" THEN Err(q, src)
        ELSE Ok(PutStage(q, path,
                  [r.stage EXCEPT !.fields[fieldIndex + 1] = definition]), src)
  IN With(stageAtPath(q, path))

\* QueryBuilder.addFilterToField (as is optional)
addFilterToField(q, src, path, fieldIndex, filter, as) ==
  LET Add(n, r) ==
        IF r.kind # "ok" \/ r.stage.type # "reduce"
           \/ ~InRange(r.stage.fields, fieldIndex)
        THEN Err(n.q, n.src)
        ELSE IF r.stage.fields[fieldIndex + 1].k = "name" THEN Err(n.q, n.src)
        ELSE IF r.stage.fields[fieldIndex + 1].k = "fan"
        THEN Ok(PutStage(n.q, path,
                  [r.stage EXCEPT !.fields[fieldIndex + 1].filterList =
                     Some(Append(OrElse(@, <<>>), filter))]), n.src)
        ELSE Ok(n.q, n.src)
      With(n) == IF n.err THEN n ELSE Add(n, stageAtPath(n.q, path))
  IN With(IF IsSome(as) THEN renameField(q, src, path, fieldIndex, Val(as))
          ELSE Ok(q, src))

(***************************************************************************)
(* The text projection (class QueryWriter).  A text is a string; the       *)
(* backquote character, which a TLA+ string cannot hold, is written ' .    *)
(* A fragment is a piece of text or one of the three layout symbols.       *)
(***************************************************************************)
S(text) == [m |-> "", s |-> text]
INDENT == [m |-> "indent", s |-> ""]
NEWLINE == [m |-> "newline", s |-> ""]
OUTDENT == [m |-> "outdent", s |-> ""]
TAB_WIDTH == 2

\* String.prototype.repeat
RECURSIVE Repeat(_, _)
Repeat(s, n) == IF n <= 0 THEN "" ELSE s \o Repeat(s, n - 1)

\* Array.prototype.join on strings
RECURSIVE Join(_, _)
Join(parts, sep) ==
  IF parts = <<>> THEN ""
  ELSE IF Len(parts) = 1 THEN parts[1]
  ELSE parts[1] \o sep \o Join(Tail(parts), sep)

\* Array.prototype.flat on a sequence of sequences
RECURSIVE Flat(_)
Flat(ss) == IF ss = <<>> THEN <<>> ELSE Head(ss) \o Flat(Tail(ss))

\* codeFromFragments.  The loop of the source carries (indent,
\* isStartOfLine) from fragment to fragment; here both are computed for
\* fragment i from the fragments before it, which keeps the evaluation
\* shallow: indent is the INDENTs less the OUTDENTs so far, and
\* isStartOfLine holds when no text follows the last NEWLINE.
IndentAt(fragments, i) ==
  Cardinality({j \in 1..(i - 1) : fragments[j].m = "indent"})
  - Cardinality({j \in 1..(i - 1) : fragments[j].m = "outdent"})

RECURSIVE IsStartOfLineAt(_, _)
IsStartOfLineAt(fragments, i) ==
  IF i = 1 THEN TRUE
  ELSE IF fragments[i - 1].m = "newline" THEN TRUE
  ELSE IF fragments[i - 1].m = "" THEN FALSE
  ELSE IsStartOfLineAt(fragments, i - 1)

CodeAt(fragments, i) ==
  IF fragments[i].m = "newline" THEN "\n"
  ELSE IF fragments[i].m # "" THEN ""
  ELSE (IF IsStartOfLineAt(fragments, i)
        THEN Repeat(" ", IndentAt(fragments, i) * TAB_WIDTH) ELSE "")
       \o fragments[i].s

\* code += ... over the pieces lo..hi
RECURSIVE Concat(_, _, _)
Concat(pieces, lo, hi) ==
  IF lo > hi THEN ""
  ELSE IF lo = hi THEN pieces[lo]
  ELSE Concat(pieces, lo, (lo + hi) \div 2)
       \o Concat(pieces, (lo + hi) \div 2 + 1, hi)

codeFromFragments(fragments) ==
  Concat([i \in 1..Len(fragments) |-> CodeAt(fragments, i)], 1, Len(fragments))

\* ./utils maybeQuoteIdentifier: the dotted path, each segment that is a
\* reserved word of the language put in backquotes
RESERVED == {"query", "source", "count", "by", "is"}
maybeQuoteIdentifier(path) ==
  Join([i \in 1..Len(path) |->
          IF path[i] \in RESERVED THEN "'" \o path[i] \o "'" ELSE path[i]], ".")

\* getFiltersString that closes the block of a single filter too
getFiltersStringOutdented(filterList) ==
  (IF Len(filterList) = 1 THEN <<S(" ")>> ELSE <<NEWLINE, INDENT>>)
  \o Flat([index \in 1..Len(filterList) |->
            <<S(filterList[index].code)>>
            \o (IF index # Len(filterList) THEN <<S(",")>> ELSE <<>>)
            \o <<NEWLINE>>])
  \o (IF Len(filterList) > 0 THEN <<OUTDENT>> ELSE <<>>)

\* QueryWriter.getFiltersString
getFiltersString(filterList) ==
  (IF Len(filterList) = 1 THEN <<S(" ")>> ELSE <<NEWLINE, INDENT>>)
  \o Flat([index \in 1..Len(filterList) |->
            <<S(filterList[index].code)>>
            \o (IF index # Len(filterList) THEN <<S(",")>> ELSE <<>>)
            \o <<NEWLINE>>])
  \o (IF Len(filterList) > 1 THEN <<OUTDENT>> ELSE <<>>)

\* QueryWriter.writeMalloyForPropertyValues
writeMalloyForPropertyValues(property, malloys) ==
  IF Len(malloys) = 0 THEN <<>>
  ELSE IF Len(malloys) = 1
       THEN <<S(property), S(": ")>> \o malloys[1] \o <<NEWLINE>>
  ELSE <<S(property), S(": "), NEWLINE, INDENT>>
       \o Flat([i \in 1..Len(malloys) |-> malloys[i] \o <<NEWLINE>>])
       \o <<OUTDENT>>

\* the field loop of getMalloyStringForStage and the flush after it:
\* infos are the defined results of codeInfoForField, in field order
RECURSIVE PropertyRuns(_, _, _)
PropertyRuns(infos, currentProperty, currentMalloys) ==
  IF infos = <<>>
  THEN (IF currentProperty # ""
        THEN writeMalloyForPropertyValues(currentProperty, currentMalloys)
        ELSE <<>>)
  ELSE IF currentProperty # "" /\ Head(infos).property # currentProperty
       THEN writeMalloyForPropertyValues(currentProperty, currentMalloys)
            \o PropertyRuns(Tail(infos), Head(infos).property,
                            <<Head(infos).malloy>>)
  ELSE PropertyRuns(Tail(infos), Head(infos).property,
                    Append(currentMalloys, Head(infos).malloy))

\* the property a resolved field is written under
PropertyOf(fieldDef) ==
  IF fieldDef.type = "turtle" THEN "nest"
  ELSE IF fieldDef.calc THEN "aggregate" ELSE "group_by"

CodeInfo(property, malloy) == Some([property |-> property, malloy |-> malloy])

\* the order_by clause of getMalloyStringForStage
OrderByClause(orderBy) ==
  IF Len(orderBy) = 0 THEN <<>>
  ELSE << S("order_by: "),
          S(Join([i \in 1..Len(orderBy) |->
                    maybeQuoteIdentifier(<<Last(orderBy[i].field)>>)
                    \o (IF orderBy[i].dir # "" THEN " " \o orderBy[i].dir ELSE "")],
                 ", ")),
          NEWLINE >>

\* QueryWriter.codeInfoForField (None where it returns undefined) and
\* QueryWriter.getMalloyStringForStage; root is this.getSource().  The
\* indent argument of the source is passed along and never read.
RECURSIVE codeInfoForField(_, _, _), getMalloyStringForStage(_, _, _),
          NestedStages(_, _, _, _)
NestedStages(root, pipeline, stageSource, head) ==
  IF pipeline = <<>> THEN Some(<<>>)
  ELSE LET Rest(rest) ==
             IF rest = None THEN None
             ELSE Some((IF head THEN <<>> ELSE <<S("->")>>)
                       \o getMalloyStringForStage(root, Head(pipeline), stageSource)
                       \o Val(rest))
           With(next) ==
             IF next.type = "error" THEN None
             ELSE Rest(NestedStages(root, Tail(pipeline), next, FALSE))
       IN With(modifySourceForStage(Head(pipeline), stageSource))

codeInfoForField(root, field, src) ==
  LET Named(d) ==
        IF d.err \/ d.def.type = "struct" THEN None
        ELSE IF field.k = "name"
        THEN CodeInfo(PropertyOf(d.def), <<S(maybeQuoteIdentifier(field.name))>>)
        ELSE CodeInfo(PropertyOf(d.def),
               <<S((IF field.as = None THEN ""
                    ELSE maybeQuoteIdentifier(Val(field.as)) \o " is ")
                   \o maybeQuoteIdentifier(field.name))>>
               \o (IF Len(OrElse(field.filterList, <<>>)) > 0
                   THEN <<S(" {"), INDENT, S("where:")>>
                        \o getFiltersString(Val(field.filterList))
                        \o <<OUTDENT, S("}")>>
                   ELSE <<>>))
      Nest(stages) ==
        IF stages = None THEN None
        ELSE CodeInfo("nest",
               <<S(maybeQuoteIdentifier(DisplayName(field)) \o " is")>>
               \o Val(stages))
  IN IF field.k # "def" THEN Named(getField(root, src, field.name))
     ELSE IF field.type = "turtle"
     THEN Nest(NestedStages(root, field.pipeline, src, TRUE))
     ELSE CodeInfo(IF field.calc THEN "aggregate" ELSE "group_by",
            <<S(maybeQuoteIdentifier(DisplayName(field)) \o " is " \o field.code)>>)

\* getMalloyStringForStage that gathers the fields of a property into one
\* clause per property
getMalloyStringForStageGrouped(root, stage, src) ==
  LET Defined(infos) ==
        [i \in 1..Len(infos) |-> Val(infos[i])]
      Grouped(infos) ==
        SelectSeq(infos, LAMBDA info : info.property = "group_by")
        \o SelectSeq(infos, LAMBDA info : info.property = "aggregate")
        \o SelectSeq(infos, LAMBDA info : info.property = "nest")
      With(infos) ==
        <<S(" {"), NEWLINE, INDENT>>
        \o (IF Len(OrElse(stage.filterList, <<>>)) > 0
            THEN <<S("where:")>> \o getFiltersString(Val(stage.filterList))
            ELSE <<>>)
        \o PropertyRuns(Grouped(Defined(SelectSeq(infos, IsSome))), "", <<>>)
        \o (IF IsSome(stage.limit) /\ Val(stage.limit) # 0
            THEN <<S("limit: " \o ToString(Val(stage.limit))), NEWLINE>>
            ELSE <<>>)
        \o (IF stage.type = "reduce" /\ IsSome(stage.orderBy)
            THEN OrderByClause(OrderList(stage, root))
            ELSE <<>>)
        \o <<OUTDENT, S("}")>>
  IN With([i \in 1..Len(stage.fields) |->
             codeInfoForField(root, stage.fields[i], src)])

getMalloyStringForStage(root, stage, src) ==
  LET Defined(infos) ==
        [i \in 1..Len(infos) |-> Val(infos[i])]
      With(infos) ==
        <<S(" {"), NEWLINE, INDENT>>
        \o (IF Len(OrElse(stage.filterList, <<>>)) > 0
            THEN <<S("where:")>> \o getFiltersString(Val(stage.filterList))
            ELSE <<>>)
        \o PropertyRuns(Defined(SelectSeq(infos, IsSome)), "", <<>>)
        \o (IF IsSome(stage.limit) /\ Val(stage.limit) # 0
            THEN <<S("limit: " \o ToString(Val(stage.limit))), NEWLINE>>
            ELSE <<>>)
        \o (IF stage.type = "reduce" /\ IsSome(stage.orderBy)
            THEN OrderByClause(OrderList(stage, root))
            ELSE <<>>)
        \o <<OUTDENT, S("}")>>
  IN With([i \in 1..Len(stage.fields) |->
             codeInfoForField(root, stage.fields[i], src)])

\* the stage loop of getMalloyString
RECURSIVE RootStages(_, _, _, _)
RootStages(root, pipeline, stageSource, forSource) ==
  IF pipeline = <<>> THEN <<>>
  ELSE (IF forSource THEN <<>> ELSE <<S(" ->")>>)
       \o getMalloyStringForStage(root, Head(pipeline), stageSource)
       \o RootStages(root, Tail(pipeline),
                     modifySourceForStage(Head(pipeline), stageSource), forSource)

Rendered(value) == [err |-> FALSE, value |-> value]
RenderFailed == [err |-> TRUE, value |-> ""]

\* getMalloyString without the arrow that binds the stages to the schema
getMalloyStringNoArrow(q, root, forSource, name) ==
  IF ProjectPipeline(root, q.pipeline).type = "error" THEN RenderFailed
  ELSE Rendered(codeFromFragments(
         <<S(Join((<<"query:">>)
                  \o (IF IsSome(name)
                      THEN <<maybeQuoteIdentifier(Val(name)) \o " is">> ELSE <<>>)
                  \o (IF forSource THEN <<>>
                      ELSE <<maybeQuoteIdentifier(DisplayName(root))>>),
                  " "))>>
         \o RootStages(root, q.pipeline, root, TRUE)))

\* QueryWriter.getMalloyString; name is None when it is undefined.  The
\* call throws when the projection of the schema through a stage does.
getMalloyString(q, root, forSource, name) ==
  IF ProjectPipeline(root, q.pipeline).type = "error" THEN RenderFailed
  ELSE Rendered(codeFromFragments(
         <<S(Join((<<"query:">>)
                  \o (IF IsSome(name)
                      THEN <<maybeQuoteIdentifier(Val(name)) \o " is">> ELSE <<>>)
                  \o (IF forSource THEN <<>>
                      ELSE <<maybeQuoteIdentifier(DisplayName(root))>>),
                  " "))>>
         \o RootStages(root, q.pipeline, root, forSource)))

\* QueryWriter.getQueryStringForModel
getQueryStringForModel(q, root) == getMalloyString(q, root, FALSE, Some(q.name))

\* QueryWriter.getQueryStringForSource
getQueryStringForSource(q, root, name) == getMalloyString(q, root, TRUE, Some(name))

\* String.prototype.split on a one-character separator, from the piece
\* collected so far
RECURSIVE SplitFrom(_, _, _)
SplitFrom(str, sep, piece) ==
  IF str = "" THEN <<piece>>
  ELSE IF SubSeq(str, 1, 1) = sep
       THEN <<piece>> \o SplitFrom(SubSeq(str, 2, Len(str)), sep, "")
  ELSE SplitFrom(SubSeq(str, 2, Len(str)), sep, piece \o SubSeq(str, 1, 1))

LowerCase == "abcdefghijklmnopqrstuvwxyz"
UpperCase == "ABCDEFGHIJKLMNOPQRSTUVWXYZ"
\* String.prototype.toUpperCase on one character
toUpperCase(c) ==
  IF \E i \in 1..Len(LowerCase) : SubSeq(LowerCase, i, i) = c
  THEN LET i == CHOOSE i \in 1..Len(LowerCase) : SubSeq(LowerCase, i, i) = c
       IN SubSeq(UpperCase, i, i)
  ELSE c

\* ../app/utils snakeToTitle: the words between underscores, each with
\* its first letter in upper case, joined by spaces
snakeToTitle(snake) ==
  LET With(words) ==
        Join([i \in 1..Len(words) |->
                toUpperCase(SubSeq(words[i], 1, 1))
                \o SubSeq(words[i], 2, Len(words[i]))], " ")
  IN With(SplitFrom(snake, "_", ""))

\* QueryWriter.getQueryStringForMarkdown; renderer is "" when it is
\* undefined
getQueryStringForMarkdown(q, root, renderer, modelPath) ==
  LET With(malloy) ==
        IF malloy.err THEN RenderFailed
        ELSE Rendered(
          "<!-- malloy-query\n"
          \o "  name=\"" \o snakeToTitle(Join(q.name, ".")) \o "\"\n"
          \o "  description=\"Add a description here.\" "
          \o (IF renderer # "" THEN "\n  renderer=\"" \o renderer \o "\"" ELSE "")
          \o "\n  model=\"" \o modelPath \o "\"\n"
          \o "-->\n"
          \o "'''malloy\n"
          \o malloy.value \o "\n"
          \o "'''")
  IN With(getMalloyString(q, root, FALSE, Some(q.name)))

(***************************************************************************)
(* The summary projection (class QueryWriter).  A style mapping is a       *)
(* function from display names to [renderer |-> text]; the message an      *)
(* error item carries is left out.                                         *)
(***************************************************************************)
\* ./filters hackyTerribleStringToFilter: "<path> <operator> <value>" is
\* parsed into the dotted path and the predicate, anything else into null
hackyTerribleStringToFilter(code) ==
  LET With(parts) ==
        IF Len(parts) # 3 THEN None
        ELSE Some([field |-> SplitFrom(parts[1], ".", ""),
                   filter |-> [operator |-> parts[2], value |-> parts[3]]])
  IN With(SplitFrom(code, " ", ""))

Summarised(items) == [err |-> FALSE, items |-> items]
SummaryFailed == [err |-> TRUE, items |-> <<>>]

\* QueryWriter.getSummaryItemsForFilterList
getSummaryItemsForFilterList(root, src, filterList) ==
  LET Item(filterIndex, parsed) ==
        [type |-> "filter", filterSource |-> filterList[filterIndex + 1].code,
         filterIndex |-> filterIndex,
         fieldPath |-> IF parsed = None THEN None ELSE Some(Val(parsed).field),
         field |-> IF parsed = None THEN None
                   ELSE Some(getField(root, src, Val(parsed).field).def),
         parsed |-> IF parsed = None THEN None ELSE Some(Val(parsed).filter)]
      Throws(parsed) ==
        parsed # None /\ getField(root, src, Val(parsed).field).err
  IN IF \E i \in 1..Len(filterList) :
          Throws(hackyTerribleStringToFilter(filterList[i].code))
     THEN SummaryFailed
     ELSE Summarised([i \in 1..Len(filterList) |->
            Item(i - 1, hackyTerribleStringToFilter(filterList[i].code))])

QueryRenderers ==
  <<"table", "bar_chart", "dashboard", "json", "line_chart", "list",
    "list_detail", "point_map", "scatter_chart", "segment_map", "shape_map",
    "sparkline">>
ScalarRenderers ==
  <<"number", "boolean", "currency", "image", "link", "percent", "text", "time">>

\* QueryWriter.getStyleItemForName (None where it returns undefined)
getStyleItemForName(name, kind, dataStyles) ==
  IF name \notin DOMAIN dataStyles THEN None
  ELSE IF dataStyles[name].renderer = "" THEN None
  ELSE Some([type |-> "data_style", renderer |-> dataStyles[name].renderer,
             styleKey |-> name, canRemove |-> name \in DOMAIN dataStyles,
             allowedRenderers |-> IF kind \in {"query", "source"}
                                  THEN QueryRenderers ELSE ScalarRenderers])

\* the kind of a resolved field
KindOf(fieldDef) ==
  IF fieldDef.type = "turtle" THEN "query"
  ELSE IF fieldDef.calc THEN "measure" ELSE "dimension"

\* QueryWriter.getStyleItem, for a field that fieldDef resolves (the
\* caller has looked it up); err where it throws
getStyleItem(field, fieldDef, dataStyles) ==
  IF field.k # "def" /\ fieldDef.type = "struct" THEN [err |-> TRUE, item |-> None]
  ELSE [err |-> FALSE,
        item |-> getStyleItemForName(nameOf(field),
                   KindOf(IF field.k = "def" THEN field ELSE fieldDef), dataStyles)]

\* QueryWriter.fanToDef
fanToDef(fan, def) ==
  [type |-> def.type, name |-> DisplayName(fan), calc |-> def.calc,
   code |-> codeFromFragments(
     <<S(Join(fan.name, "."))>>
     \o (IF Len(OrElse(fan.filterList, <<>>)) > 0
         THEN <<S(" {"), INDENT, S("where:")>>
              \o getFiltersString(Val(fan.filterList)) \o <<OUTDENT, S("}")>>
         ELSE <<>>))]

OrderByField(name, fieldIndex, type) ==
  [name |-> name, fieldIndex |-> fieldIndex, type |-> type]
ErrorField(field, fieldIndex) ==
  [type |-> "error_field", field |-> field, name |-> nameOf(field),
   fieldIndex |-> fieldIndex]
FieldEntry(item, orderByFields) == [item |-> item, orderByFields |-> orderByFields]

\* the order-by loop of getStageSummary: one entry's item (none when it
\* names no field of the stage, a structure or a nested query), err where
\* the lookup throws
OrderByItem(root, stage, src, order, orderByIndex) ==
  LET Item(theField, byFieldIndex) ==
        IF theField.err THEN [err |-> TRUE, items |-> <<>>]
        ELSE IF theField.def.type \in {"struct", "turtle"}
        THEN [err |-> FALSE, items |-> <<>>]
        ELSE [err |-> FALSE,
              items |-> << [type |-> "order_by",
                            byField |-> [type |-> theField.def.type,
                                         fieldIndex |-> byFieldIndex,
                                         name |-> DisplayName(theField.def)],
                            direction |-> order.dir,
                            orderByIndex |-> orderByIndex] >>]
      By(byFieldQueryDef, byFieldIndex) ==
        Item(IF byFieldQueryDef.k = "name"
             THEN getField(root, src, byFieldQueryDef.name)
             ELSE IF byFieldQueryDef.k = "fan"
             THEN getField(root, src, DisplayName(byFieldQueryDef))
             ELSE Found(byFieldQueryDef),
             byFieldIndex)
      With(byFieldIndex) ==
        IF byFieldIndex = -1 THEN [err |-> FALSE, items |-> <<>>]
        ELSE By(stage.fields[byFieldIndex + 1], byFieldIndex)
  IN With(FindIndex(stage.fields, LAMBDA f : nameOf(f) = order.field))

\* QueryWriter.getStageSummary; err where it throws
RECURSIVE getStageSummary(_, _, _, _), NestedSummaries(_, _, _, _),
          FieldSummary(_, _, _, _, _)
\* the stage summaries of a nested query's pipeline (None where a stage
\* summary or the projection through a stage throws)
NestedSummaries(root, pipeline, stageSource, dataStyles) ==
  IF pipeline = <<>> THEN Some(<<>>)
  ELSE LET Rest(summary, rest) ==
             IF rest = None THEN None ELSE Some(<<summary>> \o Val(rest))
           Next(summary, next) ==
             IF summary.err \/ next.type = "error" THEN None
             ELSE Rest(summary,
                       NestedSummaries(root, Tail(pipeline), next, dataStyles))
       IN Next(getStageSummary(root, Head(pipeline), stageSource, dataStyles),
               modifySourceForStage(Head(pipeline), stageSource))

\* one pass of the field loop: the item pushed and what is pushed to
\* orderByFields
FieldSummary(root, stage, src, dataStyles, fieldIndex) ==
  LET field == stage.fields[fieldIndex + 1]
      Failed(orderByFields) ==
        FieldEntry(ErrorField(field, fieldIndex), orderByFields)
      Sortable(fieldDef) ==
        IF fieldDef.type # "turtle"
        THEN <<OrderByField(nameOf(field), fieldIndex, fieldDef.type)>>
        ELSE <<>>
      Refined(fieldDef, stages, styles, filters) ==
        IF filters.err THEN Failed(Sortable(fieldDef))
        ELSE FieldEntry(
          [type |-> "field", field |-> fieldDef,
           saveDefinition |-> IF src = root /\ fieldDef.type # "turtle"
                              THEN Some(fanToDef(field, fieldDef)) ELSE None,
           fieldIndex |-> fieldIndex, filters |-> filters.items,
           styles |-> SelectSeq(styles, LAMBDA s : s.canRemove),
           isRefined |-> TRUE, path |-> field.name,
           isRenamed |-> field.as # None, name |-> DisplayName(field),
           kind |-> KindOf(fieldDef), stages |-> stages],
          Sortable(fieldDef))
      Styled(fieldDef, stages, styles) ==
        IF field.k = "name"
        THEN FieldEntry(
          [type |-> "field", field |-> fieldDef, saveDefinition |-> None,
           fieldIndex |-> fieldIndex, isRefined |-> FALSE,
           styles |-> SelectSeq(styles, LAMBDA s : s.canRemove),
           isRenamed |-> FALSE, path |-> field.name, kind |-> KindOf(fieldDef),
           name |-> DisplayName(fieldDef), stages |-> stages],
          Sortable(fieldDef))
        ELSE IF field.k = "fan"
        THEN Refined(fieldDef, stages, styles,
               getSummaryItemsForFilterList(root, src, OrElse(field.filterList, <<>>)))
        ELSE IF field.type = "turtle"
        THEN FieldEntry(
          [type |-> "nested_query_definition", name |-> DisplayName(field),
           fieldIndex |-> fieldIndex,
           saveDefinition |-> IF src = root THEN Some(field) ELSE None,
           stages |-> stages, styles |-> styles],
          <<>>)
        ELSE FieldEntry(
          [type |-> "field_definition", name |-> DisplayName(field),
           fieldIndex |-> fieldIndex, field |-> field,
           saveDefinition |-> IF src = root THEN Some(field) ELSE None,
           source |-> field.code, kind |-> KindOf(field), styles |-> styles],
          Sortable(field))
      Style(fieldDef, stages, styleItem) ==
        IF styleItem.err THEN Failed(<<>>)
        ELSE Styled(fieldDef, stages, styleItem.item)
      Staged(fieldDef, stages) ==
        IF stages = None THEN Failed(<<>>)
        ELSE Style(fieldDef, Val(stages), getStyleItem(field, fieldDef, dataStyles))
      With(d) ==
        IF d.err THEN Failed(<<>>)
        ELSE Staged(d.def,
               IF d.def.type = "turtle"
               THEN NestedSummaries(root, d.def.pipeline, src, dataStyles)
               ELSE Some(<<>>))
  IN With(fieldDefForQueryFieldDef(root, field, src))

getStageSummary(root, stage, src, dataStyles) ==
  LET Result(filters, entries, orders) ==
        IF filters.err \/ \E i \in 1..Len(orders) : orders[i].err
        THEN [err |-> TRUE, items |-> <<>>, orderByFields |-> <<>>,
              inputSource |-> src]
        ELSE [err |-> FALSE,
              items |-> filters.items
                        \o [i \in 1..Len(entries) |-> entries[i].item]
                        \o (IF IsSome(stage.limit) /\ Val(stage.limit) # 0
                            THEN <<[type |-> "limit", limit |-> Val(stage.limit)]>>
                            ELSE <<>>)
                        \o Flat([i \in 1..Len(orders) |-> orders[i].items]),
              orderByFields |->
                Flat([i \in 1..Len(entries) |-> entries[i].orderByFields]),
              inputSource |-> src]
      Orders(list) ==
        [i \in 1..Len(list) |-> OrderByItem(root, stage, src, list[i], i - 1)]
  IN Result(IF IsSome(stage.filterList)
            THEN getSummaryItemsForFilterList(root, src, Val(stage.filterList))
            ELSE Summarised(<<>>),
            [i \in 1..Len(stage.fields) |->
               FieldSummary(root, stage, src, dataStyles, i - 1)],
            IF stage.type = "reduce" /\ IsSome(stage.orderBy)
            THEN Orders(OrderList(stage, root)) ELSE <<>>)

\* QueryWriter.getQuerySummary; err where it throws
getQuerySummary(q, root, dataStyles) ==
  LET Summary(index, stageSource) ==
        IF stageSource.type = "error"
        THEN [err |-> TRUE, items |-> <<>>, orderByFields |-> <<>>,
              inputSource |-> ErrorSource]
        ELSE getStageSummary(root, q.pipeline[index], stageSource, dataStyles)
      Stage(summary, index, styleItem) ==
        IF index = Len(q.pipeline) /\ styleItem # None
        THEN [summary EXCEPT !.items = Append(@, Val(styleItem))]
        ELSE summary
      With(summaries) ==
        IF ProjectPipeline(root, q.pipeline).type = "error"
           \/ \E i \in 1..Len(summaries) : summaries[i].err
        THEN RenderFailed
        ELSE Rendered([stages |->
               [index \in 1..Len(summaries) |->
                  Stage(summaries[index], index,
                        getStyleItemForName(q.name, "query", dataStyles))]])
  IN With([index \in 1..Len(q.pipeline) |->
             Summary(index, ProjectPipeline(root, SubSeq(q.pipeline, 1, index - 1)))])

(***************************************************************************)
(* The arguments the calls are made with.                                  *)
(***************************************************************************)
FieldNames == {<<"age">>, <<"total">>, <<"by_region">>, <<"two_stage">>,
               <<"sub">>, <<"sub", "x">>, <<"bogus">>}
Aliases == {<<"a1">>}
Filters == {FilterA, FilterB}
Limits == {5}
Directions == {"desc", ""}       \* "" is an omitted direction
NestedNames == {<<"nq">>}
SavedNames == {<<"total">>}
Definitions == {Scalar(<<"calc1">>, "number", TRUE, "count()")}
\* top-level named queries of the model: one that only names a nested query
\* as its head (no stage of its own), one ending in a project stage
NamedQueries ==
  {MkQuery(<<"top_q">>, <<>>),
   MkQuery(<<"saved_q">>,
     <<MkStage("reduce", <<Bare(<<"age">>)>>, None, None, None, None),
       MkStage("project", <<Bare(<<"age">>)>>, None, None, None, None)>>)}
SchemaQueries(src) ==
  {src.fields[i] : i \in {j \in 1..Len(src.fields) : src.fields[j].type = "turtle"}}

\* the stage paths calls are made with: every stage of the tree, and below
\* each field that is not an inline nested query the stage indices a
\* promoted definition could have
MaxHops == 1
RECURSIVE PathsIn(_, _)
PathsIn(pipeline, hops) ==
  {RootPath(s) : s \in 0..(Len(pipeline) - 1)}
  \cup
  (IF hops = 0 THEN {}
   ELSE UNION { UNION {
     LET f == pipeline[s + 1].fields[i + 1] IN
       IF IsTurtleDef(f)
       THEN {MkPath(<<Hop(s, i)>> \o p.hops, p.s) : p \in PathsIn(f.pipeline, hops - 1)}
       ELSE IF f.k = "def" THEN {MkPath(<<Hop(s, i)>>, 0)}
       ELSE {MkPath(<<Hop(s, i)>>, t) : t \in 0..(MaxStages - 1)}
     : i \in 0..(Len(pipeline[s + 1].fields) - 1) }
     : s \in 0..(Len(pipeline) - 1) })

Paths(q) == PathsIn(q.pipeline, MaxHops)

\* the field indices of the stage at path ({} when it does not resolve)
FieldIndices(q, path) ==
  LET With(r) ==
        IF r.kind = "ok" THEN 0..(Len(r.stage.fields) - 1) ELSE {}
  IN With(stageAtPath(q, path))

(***************************************************************************)
(* The size of a tree, which the bounds cap.                               *)
(***************************************************************************)
RECURSIVE PipelineBounded(_, _)
PipelineBounded(pipeline, src) ==
  /\ Len(pipeline) <= MaxStages
  /\ \A s \in 1..Len(pipeline) :
       /\ Len(pipeline[s].fields) <= MaxFields
       /\ Len(OrElse(pipeline[s].filterList, <<>>)) <= MaxFilters
       /\ Len(OrderList(pipeline[s], src)) <= MaxOrderBy
       /\ \A i \in 1..Len(pipeline[s].fields) :
            /\ Len(OrElse(pipeline[s].fields[i].filterList, <<>>)) <= MaxFilters
            /\ PipelineBounded(pipeline[s].fields[i].pipeline, src)

Bounded(q, src) == PipelineBounded(q.pipeline, src)

(***************************************************************************)
(* The state machine: one action per public method of QueryBuilder.        *)
(***************************************************************************)
NoArgs == [path |-> None, name |-> <<>>, index |-> -1, index2 |-> -1,
           filter |-> None, dir |-> "", def |-> None, order |-> <<>>]

Call(op, args, q, src, err) ==
  [op |-> op, args |-> args, q |-> q, src |-> src, err |-> err]

Init ==
  /\ query = BLANK_QUERY
  /\ source = InitialSource
  /\ last = Call("new", NoArgs, BLANK_QUERY, InitialSource, FALSE)
  /\ steps = MaxSteps
  /\ held = None
  /\ output = None

\* the methods that assign a new object to this.query; the others change
\* the object in place
Reassigning == {"clearQuery", "setQuery", "replaceQuery"}

\* the object the caller holds after the call op, which left the tree q
Held(op, q) ==
  IF held = None \/ ~Val(held).live THEN held
  ELSE IF op \in Reassigning THEN Some([Val(held) EXCEPT !.live = FALSE])
  ELSE Some([Val(held) EXCEPT !.now = q])

\* the call op(args) with outcome r, which returns nothing
Step(op, args, r) ==
  /\ steps > 0
  /\ Bounded(r.q, r.src)
  /\ query' = r.q
  /\ source' = r.src
  /\ last' = Call(op, args, query, source, r.err)
  /\ steps' = steps - 1
  /\ held' = Held(op, r.q)
  /\ output' = None

AddField ==
  \E path \in Paths(query), name \in FieldNames :
    Step("addField", [NoArgs EXCEPT !.path = Some(path), !.name = name],
         addField(query, source, path, name))

ToggleField ==
  \E path \in Paths(query), name \in FieldNames :
    Step("toggleField", [NoArgs EXCEPT !.path = Some(path), !.name = name],
         toggleField(query, source, path, name))

RemoveField ==
  \E path \in Paths(query) : \E i \in FieldIndices(query, path) :
    Step("removeField", [NoArgs EXCEPT !.path = Some(path), !.index = i],
         removeField(query, source, path, i))

RenameField ==
  \E path \in Paths(query), as \in Aliases : \E i \in FieldIndices(query, path) :
    Step("renameField", [NoArgs EXCEPT !.path = Some(path), !.index = i, !.name = as],
         renameField(query, source, path, i, as))

AddNewNestedQuery ==
  \E path \in Paths(query), name \in NestedNames :
    Step("addNewNestedQuery", [NoArgs EXCEPT !.path = Some(path), !.name = name],
         addNewNestedQuery(query, source, path, name))

AddFilter ==
  \E path \in Paths(query), filter \in Filters :
    Step("addFilter", [NoArgs EXCEPT !.path = Some(path), !.filter = Some(filter)],
         addFilter(query, source, path, filter))

AddLimit ==
  \E path \in Paths(query), limit \in Limits,
     byField \in {None} \cup {Some(n) : n \in {<<"age">>}}, dir \in Directions :
    Step("addLimit", [NoArgs EXCEPT !.path = Some(path), !.index = limit,
                                    !.name = OrElse(byField, <<>>), !.dir = dir],
         addLimit(query, source, path, limit, byField, dir))

AddOrderBy ==
  \E path \in Paths(query), dir \in Directions : \E i \in FieldIndices(query, path) :
    Step("addOrderBy", [NoArgs EXCEPT !.path = Some(path), !.index = i, !.dir = dir],
         addOrderBy(query, source, path, i, dir))

AddStage ==
  \/ Step("addStage", NoArgs, addStage(query, source, None, None))
  \/ \E path \in Paths(query) : \E i \in FieldIndices(query, path) :
       Step("addStage", [NoArgs EXCEPT !.path = Some(path), !.index = i],
            addStage(query, source, Some(path), Some(i)))

RemoveStage ==
  \E path \in Paths(query) :
    Step("removeStage", [NoArgs EXCEPT !.path = Some(path)],
         removeStage(query, source, path))

LoadQuery ==
  \E name \in FieldNames :
    Step("loadQuery", [NoArgs EXCEPT !.name = name], loadQuery(query, source, name))

ReplaceQuery ==
  \E field \in SchemaQueries(source) :
    Step("replaceQuery", [NoArgs EXCEPT !.name = field.name, !.def = Some(field)],
         replaceQuery(query, source, field))

SetQuery ==
  \E named \in NamedQueries :
    Step("setQuery", [NoArgs EXCEPT !.name = named.name],
         setQuery(query, source, named))

ClearQuery == Step("clearQuery", NoArgs, clearQuery(query, source))

\* the filters a filter index addresses: the stage's, or those of field i
FiltersAt(q, path, fieldIndex) ==
  LET With(r) ==
        IF r.kind # "ok" THEN <<>>
        ELSE IF fieldIndex = None THEN OrElse(r.stage.filterList, <<>>)
        ELSE OrElse(r.stage.fields[Val(fieldIndex) + 1].filterList, <<>>)
  IN With(stageAtPath(q, path))

\* undefined, or an index of the stage's field list
OptFieldIndices(q, path) == {None} \cup {Some(i) : i \in FieldIndices(q, path)}

\* an index of an existing filter, or 0 when there is none
FilterIndices(list) == 0..(IF Len(list) = 0 THEN 0 ELSE Len(list) - 1)

EditFilter ==
  \E path \in Paths(query), filter \in Filters :
    \E i \in OptFieldIndices(query, path) :
      \E j \in FilterIndices(FiltersAt(query, path, i)) :
        Step("editFilter",
             [NoArgs EXCEPT !.path = Some(path), !.index = OrElse(i, -1),
                            !.index2 = j, !.filter = Some(filter)],
             editFilter(query, source, path, i, j, filter))

RemoveFilter ==
  \E path \in Paths(query) :
    \E i \in OptFieldIndices(query, path) :
      \E j \in FilterIndices(FiltersAt(query, path, i)) :
        Step("removeFilter",
             [NoArgs EXCEPT !.path = Some(path), !.index = OrElse(i, -1), !.index2 = j],
             removeFilter(query, source, path, j, i))

RemoveLimit ==
  \E path \in Paths(query) :
    Step("removeLimit", [NoArgs EXCEPT !.path = Some(path)],
         removeLimit(query, source, path))

EditOrderBy ==
  \E path \in Paths(query), j \in 0..(MaxOrderBy - 1), dir \in Directions :
    Step("editOrderBy", [NoArgs EXCEPT !.path = Some(path), !.index = j, !.dir = dir],
         editOrderBy(query, source, path, j, dir))

RemoveOrderBy ==
  \E path \in Paths(query), j \in 0..(MaxOrderBy - 1) :
    Step("removeOrderBy", [NoArgs EXCEPT !.path = Some(path), !.index = j],
         removeOrderBy(query, source, path, j))

\* the orders a drag of one field produces: the permutations of 0..n-1
Orders(n) ==
  {order \in [1..n -> 0..(n - 1)] :
     \A i, j \in 1..n : order[i] = order[j] => i = j}

ReorderFields ==
  \E path \in Paths(query) :
    \E order \in Orders(Cardinality(FieldIndices(query, path))) :
      Step("reorderFields", [NoArgs EXCEPT !.path = Some(path), !.order = order],
           reorderFields(query, source, path, order))

ReplaceSavedField ==
  \E path \in Paths(query), name \in SavedNames :
    \E i \in FieldIndices(query, path) :
      Step("replaceSavedField",
           [NoArgs EXCEPT !.path = Some(path), !.index = i, !.name = name],
           replaceSavedField(query, source, path, i, name))

EditFieldDefinition ==
  \E path \in Paths(query), definition \in Definitions :
    \E i \in FieldIndices(query, path) :
      Step("editFieldDefinition",
           [NoArgs EXCEPT !.path = Some(path), !.index = i, !.def = Some(definition)],
           editFieldDefinition(query, source, path, i, definition))

AddNewField ==
  \E path \in Paths(query), definition \in Definitions :
    Step("addNewField", [NoArgs EXCEPT !.path = Some(path), !.def = Some(definition)],
         addNewField(query, source, path, definition))

AddFilterToField ==
  \E path \in Paths(query), filter \in Filters,
     as \in {None} \cup {Some(n) : n \in Aliases} :
    \E i \in FieldIndices(query, path) :
      Step("addFilterToField",
           [NoArgs EXCEPT !.path = Some(path), !.index = i,
                          !.filter = Some(filter), !.name = OrElse(as, <<>>)],
           addFilterToField(query, source, path, i, filter, as))

Next ==
  \/ AddField
  \/ ToggleField
  \/ RemoveField
  \/ RenameField
  \/ AddNewNestedQuery
  \/ AddNewField
  \/ AddFilter
  \/ EditFilter
  \/ RemoveFilter
  \/ AddFilterToField
  \/ AddLimit
  \/ RemoveLimit
  \/ AddOrderBy
  \/ EditOrderBy
  \/ RemoveOrderBy
  \/ AddStage
  \/ RemoveStage
  \/ ReorderFields
  \/ ReplaceSavedField
  \/ EditFieldDefinition
  \/ LoadQuery
  \/ ReplaceQuery
  \/ SetQuery
  \/ ClearQuery

Spec == Init /\ [][Next]_vars

(***************************************************************************)
(* Runs that only insert fields, one call longer, from a blank editor.     *)
(***************************************************************************)
InitInsert ==
  /\ query = BLANK_QUERY
  /\ source = InitialSource
  /\ last = Call("new", NoArgs, BLANK_QUERY, InitialSource, FALSE)
  /\ steps = MaxInserts
  /\ held = None
  /\ output = None

NextInsert ==
  \/ AddField
  \/ AddNewField
  \/ AddNewNestedQuery

SpecInsert == InitInsert /\ [][NextInsert]_vars

(***************************************************************************)
(* The whole-query accessor, and a caller that changes what it was given.  *)
(***************************************************************************)
\* QueryBuilder.getQuery: return this.query
getQuery(q) == [live |-> TRUE, now |-> q]

GetQuery ==
  /\ steps > 0
  /\ held' = Some(getQuery(query))
  /\ last' = Call("getQuery", NoArgs, query, source, FALSE)
  /\ steps' = steps - 1
  /\ output' = None
  /\ UNCHANGED <<query, source>>

\* returned.pipeline[0].fields.push(fieldPath) on a tree q
pushField(q, fieldPath) ==
  [q EXCEPT !.pipeline[1].fields = Append(@, Bare(fieldPath))]

\* the caller pushes a field name onto the first stage of the object it
\* holds; the tree changes with it while that object is this.query
MutateReturned ==
  \E fieldPath \in SavedNames :
    /\ steps > 0
    /\ IsSome(held)
    /\ Len(Val(held).now.pipeline) >= 1
    /\ Bounded(pushField(Val(held).now, fieldPath), source)
    /\ held' = Some([Val(held) EXCEPT !.now = pushField(@, fieldPath)])
    /\ query' = IF Val(held).live THEN pushField(query, fieldPath) ELSE query
    /\ last' = Call("mutateReturned", [NoArgs EXCEPT !.name = fieldPath],
                    query, source, FALSE)
    /\ steps' = steps - 1
    /\ output' = None
    /\ UNCHANGED source

\* QueryBuilder.canRun as a call: it returns a flag and changes nothing
CanRun ==
  /\ steps > 0
  /\ output' = Some([op |-> "canRun", args |-> NoArgs, result |-> canRun(query)])
  /\ last' = Call("canRun", NoArgs, query, source, canRun(query).err)
  /\ steps' = steps - 1
  /\ UNCHANGED <<query, source, held>>

\* QueryBuilder.getQueryStrings: the three texts, then canRun(); it throws
\* when one of the four does
getQueryStrings(q, root, renderer, modelPath) ==
  LET With(model, src, markdown, isRunnable) ==
        IF model.err \/ src.err \/ markdown.err \/ isRunnable.err
        THEN [err |-> TRUE, value |-> ""]
        ELSE [err |-> FALSE,
              value |-> [model |-> model.value, source |-> src.value,
                         markdown |-> markdown.value,
                         isRunnable |-> isRunnable.value]]
  IN With(getQueryStringForModel(q, root),
          getQueryStringForSource(q, root, q.name),
          getQueryStringForMarkdown(q, root, renderer, modelPath),
          canRun(q))

GetQueryStrings ==
  \E renderer \in {"", "bar_chart"}, modelPath \in {"flights.malloy"} :
    /\ steps > 0
    /\ output' = Some([op |-> "getQueryStrings",
                       args |-> [renderer |-> renderer, modelPath |-> modelPath],
                       result |-> getQueryStrings(query, source, renderer, modelPath)])
    /\ last' = Call("getQueryStrings", NoArgs, query, source,
                    getQueryStrings(query, source, renderer, modelPath).err)
    /\ steps' = steps - 1
    /\ UNCHANGED <<query, source, held>>

NextAccess ==
  \/ GetQuery
  \/ MutateReturned
  \/ AddField
  \/ RenameField
  \/ AddOrderBy
  \/ AddStage
  \/ ClearQuery
  \/ ReplaceQuery
  \/ SetQuery
  \/ CanRun
  \/ GetQueryStrings

SpecAccess == Init /\ [][NextAccess]_vars

(***************************************************************************)
(* Rendering.  A call of a renderer leaves its arguments and its result    *)
(* in output.                                                              *)
(***************************************************************************)
MaxRenderSteps == 4

StyleMappings ==
  {<<>>, [name \in {<<"age">>, <<"new_query">>} |-> [renderer |-> "bar_chart"]]}
Renderers == {"", "bar_chart"}
ModelPaths == {"flights.malloy"}
SourceNames == {<<"by_age">>}

RenderArgs == [name |-> <<>>, renderer |-> "", modelPath |-> "", dataStyles |-> <<>>]

\* a writer that keeps the tree and the schema of before the previous call
getWriterStale == [query |-> last.q, source |-> last.src]

\* QueryBuilder.getWriter: the writer reads the editor's tree and schema
getWriter == [query |-> query, source |-> source]

\* a renderer that pushes what it computed last to the tree's last stage
RenderPushing(op, args, path, result) ==
  /\ steps > 0
  /\ output' = Some([op |-> op, args |-> args, result |-> result])
  /\ last' = Call(op, [NoArgs EXCEPT !.path = path], query, source, result.err)
  /\ steps' = steps - 1
  /\ query' = [query EXCEPT !.pipeline[Len(query.pipeline)].limit = Some(1)]
  /\ UNCHANGED <<source, held>>

\* a call of a renderer: nothing but output changes
Render(op, args, path, result) ==
  /\ steps > 0
  /\ output' = Some([op |-> op, args |-> args, result |-> result])
  /\ last' = Call(op, [NoArgs EXCEPT !.path = path], query, source, result.err)
  /\ steps' = steps - 1
  /\ UNCHANGED <<query, source, held>>

GetQueryStringForModel ==
  Render("getQueryStringForModel", RenderArgs, None,
         getQueryStringForModel(getWriter.query, getWriter.source))

GetQueryStringForSource ==
  \E name \in SourceNames :
    Render("getQueryStringForSource", [RenderArgs EXCEPT !.name = name], None,
           getQueryStringForSource(getWriter.query, getWriter.source, name))

GetQueryStringForMarkdown ==
  \E renderer \in Renderers, modelPath \in ModelPaths :
    Render("getQueryStringForMarkdown",
           [RenderArgs EXCEPT !.renderer = renderer, !.modelPath = modelPath], None,
           getQueryStringForMarkdown(getWriter.query, getWriter.source,
                                     renderer, modelPath))

GetQuerySummary ==
  \E dataStyles \in StyleMappings :
    Render("getQuerySummary", [RenderArgs EXCEPT !.dataStyles = dataStyles], None,
           getQuerySummary(getWriter.query, getWriter.source, dataStyles))

\* QueryWriter.getStageSummary called with a stage of the tree and the
\* schema that stage reads
StageSummaryAt(q, root, path, dataStyles) ==
  LET With(summary) ==
        IF summary.err THEN RenderFailed ELSE Rendered(summary)
  IN With(getStageSummary(root, stageAtPath(q, path).stage,
                          sourceForStageAtPath(q, root, path).def, dataStyles))

GetStageSummary ==
  \E path \in Paths(query), dataStyles \in StyleMappings :
    /\ stageAtPath(query, path).kind = "ok"
    /\ ~sourceForStageAtPath(query, source, path).err
    /\ Render("getStageSummary", [RenderArgs EXCEPT !.dataStyles = dataStyles],
              Some(path),
              StageSummaryAt(getWriter.query, getWriter.source, path, dataStyles))

InitRender ==
  /\ query = BLANK_QUERY
  /\ source = InitialSource
  /\ last = Call("new", NoArgs, BLANK_QUERY, InitialSource, FALSE)
  /\ steps = MaxRenderSteps
  /\ held = None
  /\ output = None

NextRender ==
  \/ AddField
  \/ RemoveField
  \/ RenameField
  \/ AddOrderBy
  \/ AddStage
  \/ ReplaceQuery
  \/ GetQueryStringForModel
  \/ GetQueryStringForSource
  \/ GetQueryStringForMarkdown
  \/ GetQuerySummary
  \/ GetStageSummary

SpecRender == InitRender /\ [][NextRender]_vars

(***************************************************************************)
(* What the claims speak of.                                               *)
(***************************************************************************)
CallPath == Val(last.args.path)
Succeeded(ops) == last.op \in ops /\ ~last.err

\* the fields of the stage at path (<<>> when the path does not resolve)
FieldsAt(q, path) ==
  LET With(r) == IF r.kind = "ok" THEN r.stage.fields ELSE <<>>
  IN With(stageAtPath(q, path))

\* the stage at path (the empty stage when the path does not resolve)
StageAt(q, path) == stageAtPath(q, path).stage

\* the tree the last call edited, after it expanded the addressed stage
Expanded == autoExpandStageAtPath(last.q, last.src, CallPath).q

RECURSIVE NeverEmpty(_)
\* pipeline and the pipeline of every nested query in it have a stage
NeverEmpty(pipeline) ==
  /\ Len(pipeline) >= 1
  /\ \A s \in 1..Len(pipeline) : \A i \in 1..Len(pipeline[s].fields) :
       IsTurtleDef(pipeline[s].fields[i]) => NeverEmpty(pipeline[s].fields[i].pipeline)

(***************************************************************************)
(* C1.  After any sequence of editor operations from a fresh editor the    *)
(* root pipeline and the pipeline of every nested-query field reference    *)
(* have at least one stage.  setQuery installs the pipeline it is given,   *)
(* and a named query that only names its head has no stage.                *)
(***************************************************************************)
C1_PipelineNeverEmpty == NeverEmpty(query.pipeline)

(***************************************************************************)
(* C2.  insertField on a stage with fields F and a new field of rank r     *)
(* yields F with the new field at index i, the smallest index whose field  *)
(* has rank greater than r, or |F|; nothing else moves or changes.         *)
(***************************************************************************)
InsertOps == {"addField", "addNewField", "addNewNestedQuery"}

\* the field reference the last insertion was given
Inserted ==
  IF last.op = "addField" THEN Bare(last.args.name)
  ELSE IF last.op = "addNewField" THEN Val(last.args.def)
  ELSE Turtle(last.args.name, <<EmptyStage>>)

\* rank of a schema field: 0 dimension, 1 calculation, 2 nested query,
\* 3 structure
Rank(def) ==
  CASE def.type = "struct" -> 3
    [] def.type = "turtle" -> 2
    [] OTHER -> IF def.calc THEN 1 ELSE 0

\* rank of a field reference against the schema of the stage at path in
\* tree q; -1 when the reference does not resolve there
RankAt(q, src, path, field) ==
  LET With(s, fd) == IF s.err \/ fd.err THEN -1 ELSE Rank(fd.def)
  IN With(sourceForStageAtPath(q, src, path),
          fieldDefForQueryFieldDef(src, field,
            sourceForStageAtPath(q, src, path).def))

\* new is F with field at index i, before nothing of rank at most r and
\* either last or right before a field of rank above r
InsertedByRank(F, new, field, rankOf(_)) ==
  \E i \in 0..Len(F) :
    /\ new = SubSeq(F, 1, i) \o <<field>> \o SubSeq(F, i + 1, Len(F))
    /\ \A j \in 1..i : rankOf(F[j]) <= rankOf(field)
    /\ i < Len(F) => rankOf(F[i + 1]) > rankOf(field)

C2_InsertAtRank ==
  Succeeded(InsertOps) =>
    InsertedByRank(FieldsAt(Expanded, CallPath), FieldsAt(query, CallPath), Inserted,
                   LAMBDA f : RankAt(Expanded, last.src, CallPath, f))

\* a calculation was inserted before a structure and after a dimension
C2_Witness ==
  /\ Succeeded(InsertOps)
  /\ FieldsAt(query, CallPath) = <<Bare(<<"age">>), Bare(<<"total">>), Bare(<<"sub">>)>>
  /\ Inserted = Bare(<<"total">>)

(***************************************************************************)
(* C3.  A field whose rank is above that of every field of the stage is    *)
(* appended, so fields inserted in strictly increasing rank into an empty  *)
(* stage stand in insertion order; and a dimension inserted into a stage   *)
(* that holds a calculation stands before every calculation.               *)
(***************************************************************************)
\* the indices (1-based) at which new holds field and the rest is F
InsertedAt(F, new, field) ==
  {i \in 1..Len(new) : new[i] = field /\ Splice1(new, i - 1) = F}

C3_IncreasingRankKeepsOrder ==
  Succeeded(InsertOps) =>
    LET F == FieldsAt(Expanded, CallPath)
        new == FieldsAt(query, CallPath)
        rankOf(f) == RankAt(Expanded, last.src, CallPath, f)
    IN /\ (\A j \in 1..Len(F) : rankOf(F[j]) >= 0 /\ rankOf(F[j]) < rankOf(Inserted))
            => new = Append(F, Inserted)
       /\ (rankOf(Inserted) = 0 /\ \E j \in 1..Len(F) : rankOf(F[j]) = 1)
            => \E i \in InsertedAt(F, new, Inserted) :
                 \A j \in 1..Len(new) : (j # i /\ rankOf(new[j]) = 1) => i < j

\* dimension, calculation, nested query, structure, inserted in that order
C3_Witness ==
  /\ Succeeded(InsertOps)
  /\ steps = 0
  /\ FieldsAt(query, RootPath(0)) =
       <<Bare(<<"age">>), Bare(<<"total">>), Bare(<<"by_region">>), Bare(<<"sub">>)>>
  /\ Inserted = Bare(<<"sub">>)

\* a dimension was inserted into a stage that held only a calculation
C3_WitnessDimension ==
  /\ Succeeded(InsertOps)
  /\ FieldsAt(Expanded, CallPath) = <<Bare(<<"total">>)>>
  /\ FieldsAt(query, CallPath) = <<Bare(<<"age">>), Bare(<<"total">>)>>

(***************************************************************************)
(* C4.  toggleField(path, x) applied twice leaves the field sequence of    *)
(* the stage as it was before the first call, both when x was absent and   *)
(* when x was present as a bare name at any position.                      *)
(* The second call is applied to the state the first one left.             *)
(***************************************************************************)
ToggledAgain == toggleField(query, source, CallPath, last.args.name)

\* x was a bare name of the stage before the first call
WasPresent == \E j \in 1..Len(FieldsAt(Expanded, CallPath)) :
                FieldsAt(Expanded, CallPath)[j] = Bare(last.args.name)

\* x resolves in the schema of the stage
Resolvable == RankAt(Expanded, last.src, CallPath, Bare(last.args.name)) >= 0

C4_ToggleTwiceRestores ==
  (Succeeded({"toggleField"}) /\ Resolvable) =>
    /\ ~ToggledAgain.err
    /\ FieldsAt(ToggledAgain.q, CallPath) = FieldsAt(Expanded, CallPath)

(***************************************************************************)
(* C4 as the code has it.  When x was absent, two calls restore the field  *)
(* sequence.  When x was present, the first call removes its first         *)
(* occurrence as a bare name; the second then removes the next occurrence  *)
(* if there is one, and else inserts x by rank, which is where it stood    *)
(* only if it stood at its rank position.                                  *)
(***************************************************************************)
C4_ToggleTwice ==
  (Succeeded({"toggleField"}) /\ Resolvable) =>
    LET F == FieldsAt(Expanded, CallPath)
        once == FieldsAt(query, CallPath)
        twice == FieldsAt(ToggledAgain.q, CallPath)
        x == Bare(last.args.name)
        first == FindIndex(F, LAMBDA f : f = x)
        next == FindIndex(once, LAMBDA f : f = x)
    IN /\ ~ToggledAgain.err
       /\ ~WasPresent => twice = F
       /\ WasPresent =>
            /\ once = Splice1(F, first)
            /\ next # -1 => twice = Splice1(once, next)
            /\ next = -1 =>
                 InsertedByRank(once, twice, x,
                   LAMBDA f : RankAt(query, source, CallPath, f))

\* x was absent and the first call added it
C4_WitnessAbsent ==
  /\ Succeeded({"toggleField"})
  /\ ~WasPresent
  /\ Len(FieldsAt(Expanded, CallPath)) >= 1

\* x was present, and two calls leave it at another position
C4_WitnessMoved ==
  /\ Succeeded({"toggleField"})
  /\ Resolvable
  /\ WasPresent
  /\ Len(FieldsAt(ToggledAgain.q, CallPath)) = Len(FieldsAt(Expanded, CallPath))
  /\ FieldsAt(ToggledAgain.q, CallPath) # FieldsAt(Expanded, CallPath)

(***************************************************************************)
(* C5.  addFilter through a stage path whose hop addresses a bare name of  *)
(* a nested query replaces that field, at its index, by a copy of the      *)
(* schema's definition, appends the filter to the addressed stage of the   *)
(* copy, and leaves the schema as it was.                                  *)
(***************************************************************************)
CallHop == Head(CallPath.hops)

\* the stage the hop of the last call's path starts from, before the call
HopStage == last.q.pipeline[CallHop.s + 1]

\* the schema's definition of the field the hop addresses, before the call
HopDefinition ==
  fieldDefForQueryFieldDef(last.src, HopStage.fields[CallHop.f + 1],
    sourceForStageAtPath(last.q, last.src, RootPath(CallHop.s)).def)

\* the last call's path enters a bare name of a nested query and addresses
\* one of the stages of its definition
ThroughBareNestedQuery ==
  /\ IsSome(last.args.path)
  /\ Len(CallPath.hops) = 1
  /\ InRange(last.q.pipeline, CallHop.s)
  /\ InRange(HopStage.fields, CallHop.f)
  /\ HopStage.fields[CallHop.f + 1].k = "name"
  /\ ~sourceForStageAtPath(last.q, last.src, RootPath(CallHop.s)).err
  /\ ~HopDefinition.err
  /\ HopDefinition.def.type = "turtle"
  /\ InRange(HopDefinition.def.pipeline, CallPath.s)

C5_AddFilterPromotes ==
  (last.op = "addFilter" /\ ThroughBareNestedQuery) =>
    /\ ~last.err
    /\ source = last.src
    /\ query =
         [last.q EXCEPT !.pipeline[CallHop.s + 1].fields[CallHop.f + 1] =
            [HopDefinition.def EXCEPT !.pipeline[CallPath.s + 1].filterList =
               Some(Append(OrElse(@, <<>>), Val(last.args.filter)))]]

(***************************************************************************)
(* C6.  renameField(path, i, alias) gives field i the display name alias   *)
(* (a bare name becomes a refined reference to the same path), leaves the  *)
(* other fields as they were, and every order-by entry of the stage that   *)
(* carried the field's previous display name carries alias.                *)
(***************************************************************************)
\* the display name of a field reference
NameOf(field) == IF field.as # None THEN Val(field.as) ELSE field.name

\* the order-by entries of the stage the last call addressed, before and
\* after the call
OrdersBefore == OrderList(StageAt(last.q, CallPath), last.src)
OrdersAfter == OrderList(StageAt(query, CallPath), source)

C6_RenameField ==
  Succeeded({"renameField"}) =>
    LET F == FieldsAt(last.q, CallPath)
        new == FieldsAt(query, CallPath)
        i == last.args.index + 1
        alias == last.args.name
    IN /\ Len(new) = Len(F)
       /\ \A j \in 1..Len(F) : j # i => new[j] = F[j]
       /\ NameOf(new[i]) = alias
       /\ new[i].name = F[i].name
       /\ F[i].k = "name" => new[i] = Fan(F[i].name, Some(alias), None)
       /\ Len(OrdersAfter) = Len(OrdersBefore)
       /\ \A j \in 1..Len(OrdersBefore) :
            IF OrdersBefore[j].field = NameOf(F[i])
            THEN OrdersAfter[j] = Order(alias, OrdersBefore[j].dir)
            ELSE OrdersAfter[j] = OrdersBefore[j]

\* a bare name that an order-by entry named was renamed
C6_Witness ==
  /\ Succeeded({"renameField"})
  /\ FieldsAt(last.q, CallPath)[last.args.index + 1].k = "name"
  /\ \E j \in 1..Len(OrdersBefore) :
       /\ OrdersBefore[j].field = NameOf(FieldsAt(last.q, CallPath)[last.args.index + 1])
       /\ OrdersAfter[j].field = last.args.name

(***************************************************************************)
(* C7.  removeField(path, i) removes exactly field i and deletes every     *)
(* order-by entry of the stage that names the removed field, so that none  *)
(* names it afterwards, even when several did.                             *)
(***************************************************************************)
C7_RemoveField ==
  Succeeded({"removeField"}) =>
    LET F == FieldsAt(last.q, CallPath)
        removed == NameOf(F[last.args.index + 1])
    IN /\ FieldsAt(query, CallPath) = Splice1(F, last.args.index)
       /\ OrdersAfter = SelectSeq(OrdersBefore, LAMBDA order : order.field # removed)

(***************************************************************************)
(* loadQuery: the definition the last call named, and the merge rules.     *)
(***************************************************************************)
Loaded == getField(last.src, last.src, last.args.name)
LoadedPipeline == Loaded.def.pipeline

\* a call of loadQuery that named a nested query of the schema
LoadedQuery == last.op = "loadQuery" /\ ~Loaded.err /\ Loaded.def.type = "turtle"

\* new is old merged with the definition's stage Q: Q's fields, then the
\* fields of old that no field of Q shares its display name with; old's
\* filters, then those of Q whose text old lacks; Q's limit and order-by
\* where Q has them
MergesInto(old, Q, new) ==
  /\ new.type = old.type
  /\ new.fields =
       Q.fields \o SelectSeq(old.fields, LAMBDA f :
                     \A j \in 1..Len(Q.fields) : NameOf(Q.fields[j]) # NameOf(f))
  /\ OrElse(new.filterList, <<>>) =
       OrElse(old.filterList, <<>>)
         \o SelectSeq(OrElse(Q.filterList, <<>>), LAMBDA g :
              \A j \in 1..Len(OrElse(old.filterList, <<>>)) :
                 Val(old.filterList)[j].code # g.code)
  /\ new.limit = IF IsSome(Q.limit) THEN Q.limit ELSE old.limit
  /\ IsSome(Q.orderBy) => OrderList(new, source) = OrderList(Q, last.src)

(***************************************************************************)
(* C8.  loadQuery of a named query Q into a tree that has a stage 0 gives  *)
(* stage 0 the fields of Q followed by the previous fields whose display   *)
(* name no field of Q has, the previous filters followed by those of Q     *)
(* whose text was not present, Q's limit if Q has one (else the previous   *)
(* one), and Q's order-by if Q has one.                                    *)
(***************************************************************************)
C8_LoadQueryStage0 ==
  (LoadedQuery /\ ~last.err /\ Len(last.q.pipeline) >= 1 /\ Len(LoadedPipeline) >= 1) =>
    MergesInto(last.q.pipeline[1], LoadedPipeline[1], query.pipeline[1])

\* by_region was loaded over a colliding and a non-colliding field
C8_Witness ==
  /\ LoadedQuery /\ ~last.err
  /\ Len(last.q.pipeline) >= 1
  /\ last.q.pipeline[1].fields = <<Bare(<<"age">>), Bare(<<"sub">>)>>
  /\ query.pipeline[1].fields = <<Bare(<<"age">>), Bare(<<"total">>), Bare(<<"sub">>)>>
  /\ query.pipeline[1].limit = Some(10)

(***************************************************************************)
(* C9.  In loadQuery, a stage k >= 1 of the loaded definition is copied    *)
(* verbatim to index k if the tree has no stage k, and loadQuery fails     *)
(* (MergeConflict) if the tree has a stage k.                              *)
(***************************************************************************)
LaterStages == 1..(Len(LoadedPipeline) - 1)

\* the definition's stage k was copied into the tree
CopiedVerbatim(k) ==
  /\ InRange(query.pipeline, k)
  /\ query.pipeline[k + 1] = LoadedPipeline[k + 1]

C9_LaterStageConflict ==
  LoadedQuery =>
    \A k \in LaterStages :
      IF InRange(last.q.pipeline, k) THEN last.err
      ELSE ~last.err => CopiedVerbatim(k)

(***************************************************************************)
(* C9 as the code has it.  A stage k >= 1 of the loaded definition is      *)
(* copied verbatim if the tree has no stage k.  If the tree has a stage k  *)
(* it is merged by the rules of stage 0; loadQuery throws exactly when a   *)
(* stage that both the tree and the definition have is not a reduce stage  *)
(* in one of the two.                                                      *)
(***************************************************************************)
\* some stage the tree and the definition both have is not a reduce stage
NonReducePair ==
  \E j \in 1..Len(LoadedPipeline) :
    /\ j <= Len(last.q.pipeline)
    /\ (last.q.pipeline[j].type # "reduce" \/ LoadedPipeline[j].type # "reduce")

C9_LaterStageMerge ==
  LoadedQuery =>
    /\ last.err <=> NonReducePair
    /\ ~last.err =>
         \A k \in LaterStages :
           IF InRange(last.q.pipeline, k)
           THEN MergesInto(last.q.pipeline[k + 1], LoadedPipeline[k + 1],
                           query.pipeline[k + 1])
           ELSE CopiedVerbatim(k)

\* a second stage that carried a filter was merged with the definition's
C9_Witness ==
  /\ LoadedQuery /\ ~last.err
  /\ \E k \in LaterStages :
       /\ InRange(last.q.pipeline, k)
       /\ IsSome(last.q.pipeline[k + 1].filterList)
       /\ query.pipeline[k + 1].filterList = last.q.pipeline[k + 1].filterList
       /\ Len(query.pipeline[k + 1].fields) >= 1

(***************************************************************************)
(* C10.  replaceQuery(N) sets the tree to a copy of N's pipeline and name. *)
(* The filters of the new stage 0 are the old stage-0 filters followed by  *)
(* N's when the old tree was one stage without fields, and exactly N's     *)
(* otherwise.                                                              *)
(***************************************************************************)
Replacement == Val(last.args.def)

\* the old tree was exactly one stage, and that stage had no field
WasSingleEmptyStage ==
  Len(last.q.pipeline) = 1 /\ last.q.pipeline[1].fields = <<>>

C10_ReplaceQuery ==
  Succeeded({"replaceQuery"}) =>
    /\ query.name = NameOf(Replacement)
    /\ Len(query.pipeline) = Len(Replacement.pipeline)
    /\ \A k \in 2..Len(query.pipeline) : query.pipeline[k] = Replacement.pipeline[k]
    /\ [query.pipeline[1] EXCEPT !.filterList = None]
         = [Replacement.pipeline[1] EXCEPT !.filterList = None]
    /\ OrElse(query.pipeline[1].filterList, <<>>) =
         (IF WasSingleEmptyStage THEN OrElse(last.q.pipeline[1].filterList, <<>>)
          ELSE <<>>)
           \o OrElse(Replacement.pipeline[1].filterList, <<>>)
    /\ source = last.src

\* filters of a single stage without fields were carried over
C10_Witness ==
  /\ Succeeded({"replaceQuery"})
  /\ WasSingleEmptyStage
  /\ last.q.pipeline[1].filterList = Some(<<FilterB>>)
  /\ query.pipeline[1].filterList = Some(<<FilterB, FilterA>>)

(***************************************************************************)
(* C11.  getQuery returns a deep copy: a change the caller makes to the    *)
(* returned object never changes the editor's tree, and a later edit of    *)
(* the editor never changes an object returned before.                     *)
(***************************************************************************)
C11_GetQueryCopies ==
  [][/\ last'.op = "mutateReturned" => query' = query
     /\ (IsSome(held) /\ last'.op \notin {"mutateReturned", "getQuery"})
          => Val(held').now = Val(held).now]_vars

(***************************************************************************)
(* C12.  The schema is never modified: whatever was loaded from it and     *)
(* however the tree was edited afterwards, the schema's definition of      *)
(* every named query (its stages' fields, filters, order-by and limit) is  *)
(* the one the editor was constructed with.                                *)
(***************************************************************************)
C12_SchemaNeverModified ==
  /\ Len(source.fields) = Len(InitialSource.fields)
  /\ \A i \in 1..Len(InitialSource.fields) :
       InitialSource.fields[i].type = "turtle" =>
         /\ source.fields[i].name = InitialSource.fields[i].name
         /\ source.fields[i].pipeline = InitialSource.fields[i].pipeline

(***************************************************************************)
(* Rendering.                                                              *)
(***************************************************************************)
TextOps ==
  {"getQueryStringForModel", "getQueryStringForSource", "getQueryStringForMarkdown"}
RenderOps == TextOps \cup {"getQuerySummary", "getStageSummary"}

\* the last call was a renderer's, and it returned
RenderedBy(ops) == IsSome(output) /\ Val(output).op \in ops /\ ~Val(output).result.err
Result == Val(output).result.value

\* what the renderer called last yields for a tree and a schema
RenderOf(q, root) ==
  LET With(op, args) ==
        IF op = "getQueryStringForModel" THEN getQueryStringForModel(q, root)
        ELSE IF op = "getQueryStringForSource"
        THEN getQueryStringForSource(q, root, args.name)
        ELSE IF op = "getQueryStringForMarkdown"
        THEN getQueryStringForMarkdown(q, root, args.renderer, args.modelPath)
        ELSE IF op = "getQuerySummary"
        THEN getQuerySummary(q, root, args.dataStyles)
        ELSE StageSummaryAt(q, root, CallPath, args.dataStyles)
  IN With(Val(output).op, Val(output).args)

Occurrences(text, sub) ==
  {i \in 1..(Len(text) - Len(sub) + 1) : SubSeq(text, i, i + Len(sub) - 1) = sub}

StageBlocksChained(text, n) ==
  /\ Cardinality(Occurrences(text, "\n}")) = n
  /\ Cardinality(Occurrences(text, "\n} -> {\n")) = n - 1

C15_StagesChained ==
  RenderedBy({"getQueryStringForModel", "getQueryStringForSource"}) =>
    StageBlocksChained(Result, Len(query.pipeline))

\* the same, for the text bound to the named schema alone
C15_ModelModeChained ==
  RenderedBy({"getQueryStringForModel"}) =>
    StageBlocksChained(Result, Len(query.pipeline))

(***************************************************************************)
(* C16.  The summary of a stage is produced whatever fields of it fail to  *)
(* resolve in the schema the stage reads: the call returns, and its items  *)
(* hold, after the stage's filters and in field order, one item per field, *)
(* an error item for a field that does not resolve and the normal item     *)
(* for a scalar field that does; filters, a limit and order-by entries of  *)
(* the stage (naming the unresolvable field or not) change nothing to it.  *)
(***************************************************************************)
SummarisedStage == stageAtPath(query, CallPath).stage
SummarisedSource == sourceForStageAtPath(query, source, CallPath).def
FieldItem(i) ==
  Val(output).result.value.items[Len(OrElse(SummarisedStage.filterList, <<>>)) + i]
ResolvesAt(i) ==
  fieldDefForQueryFieldDef(source, SummarisedStage.fields[i], SummarisedSource)
Unresolvable == {i \in 1..Len(SummarisedStage.fields) : ResolvesAt(i).err}

C16_ErrorItems ==
  (IsSome(output) /\ Val(output).op = "getStageSummary" /\ Unresolvable # {}) =>
    /\ ~Val(output).result.err
    /\ \A i \in 1..Len(SummarisedStage.fields) :
         /\ FieldItem(i).fieldIndex = i - 1
         /\ i \in Unresolvable => FieldItem(i).type = "error_field"
         /\ (i \notin Unresolvable
              /\ ResolvesAt(i).def.type \notin {"struct", "turtle"}
              /\ SummarisedStage.fields[i].k # "fan")
               => FieldItem(i).type \in {"field", "field_definition"}

\* the same, for stages without order-by entries
C16_ErrorItemsUnordered ==
  \/ /\ IsSome(output) /\ Val(output).op = "getStageSummary"
     /\ OrderList(SummarisedStage, source) # <<>>
  \/ C16_ErrorItems

(***************************************************************************)
(* C17.  addLimit, removeLimit, addOrderBy, editOrderBy and removeOrderBy  *)
(* auto-expand the stage they address: called with a path through a bare   *)
(* reference to a nested query, each promotes the reference to an inline   *)
(* nested query and works on the addressed stage of it; none fails with a  *)
(* path error.                                                             *)
(***************************************************************************)
LimitAndOrderOps ==
  {"addLimit", "removeLimit", "addOrderBy", "editOrderBy", "removeOrderBy"}

\* the field the path of the last call passes through, after the call
HopFieldNow == query.pipeline[CallHop.s + 1].fields[CallHop.f + 1]

C17_LimitAndOrderAutoExpand ==
  (last.op \in LimitAndOrderOps /\ ThroughBareNestedQuery) =>
    /\ IsTurtleDef(HopFieldNow)
    /\ stageAtPath(query, CallPath).kind = "ok"
    /\ last.op \in {"addLimit", "addOrderBy", "removeLimit"} => ~last.err

\* the same, for the two operations that call autoExpandStageAtPath, where
\* the addressed stage has the index of the root stage holding the reference
C17_AddLimitAddOrderBy ==
  (last.op \in {"addLimit", "addOrderBy"} /\ ThroughBareNestedQuery
     /\ CallPath.s = CallHop.s) =>
    /\ IsTurtleDef(HopFieldNow)
    /\ stageAtPath(query, CallPath).kind = "ok"

(***************************************************************************)
(* C18.  addStage(path, fieldIndex) on a field that resolves to a nested   *)
(* query appends exactly one empty reduce stage to that field's pipeline,  *)
(* a reference being replaced first by a copy of the definition (the       *)
(* pipeline is then the definition's stages and one empty stage, and the   *)
(* schema is as before); on any other field it fails and the tree is as    *)
(* before.  addStage without a path appends one empty stage to the root    *)
(* pipeline.                                                               *)
(***************************************************************************)
\* the field addStage was called on, and what it resolves to, before the call
StagedField == StageAt(last.q, CallPath).fields[last.args.index + 1]
StagedDefinition ==
  fieldDefForQueryFieldDef(last.src, StagedField,
                           sourceForStageAtPath(last.q, last.src, CallPath).def)
ResolvesToNestedQuery ==
  /\ ~sourceForStageAtPath(last.q, last.src, CallPath).err
  /\ ~StagedDefinition.err
  /\ StagedDefinition.def.type = "turtle"

\* the tree with one empty stage more in the nested query of definition def
WithStageAdded(def) ==
  PutStage(last.q, CallPath,
    [StageAt(last.q, CallPath) EXCEPT !.fields[last.args.index + 1] =
       [def EXCEPT !.pipeline = Append(@, EmptyStage)]])

\* field i of the stage at path, after the call
HopFieldNowAt(path, i) == StageAt(query, path).fields[i + 1]

C18_AddStage ==
  (last.op = "addStage") =>
    /\ source = last.src
    /\ IF last.args.path = None
       THEN ~last.err /\ query = [last.q EXCEPT !.pipeline = Append(@, EmptyStage)]
       ELSE IF ResolvesToNestedQuery
       THEN ~last.err /\ query = WithStageAdded(StagedDefinition.def)
       ELSE last.err /\ query = last.q

\* the same, where the field is a bare name or an inline nested query
C18_AddStageBareOrInline ==
  (last.op = "addStage") =>
    /\ source = last.src
    /\ IF last.args.path = None
       THEN ~last.err /\ query = [last.q EXCEPT !.pipeline = Append(@, EmptyStage)]
       ELSE IF ResolvesToNestedQuery /\ StagedField.k # "fan"
       THEN ~last.err /\ query = WithStageAdded(StagedDefinition.def)
       ELSE last.err /\ query = last.q

\* a bare reference was promoted and given a stage
C18_Witness ==
  /\ Succeeded({"addStage"})
  /\ last.args.path # None
  /\ StagedField.k = "name"
  /\ Len(HopFieldNowAt(CallPath, last.args.index).pipeline)
       = Len(StagedDefinition.def.pipeline) + 1

(***************************************************************************)
(* The tokens of a text: its pieces between spaces and line ends.          *)
(***************************************************************************)
IsSpace(text, i) == SubSeq(text, i, i) \in {" ", "\n"}
TokenStarts(text) ==
  {i \in 1..Len(text) : ~IsSpace(text, i) /\ (i = 1 \/ IsSpace(text, i - 1))}
TokenEnd(text, i) ==
  CHOOSE j \in i..Len(text) :
    /\ \A k \in i..j : ~IsSpace(text, k)
    /\ j = Len(text) \/ IsSpace(text, j + 1)
Tokens(text) ==
  LET With(starts) ==
        [k \in 1..Cardinality(starts) |->
           LET i == CHOOSE i \in starts : Cardinality({j \in starts : j < i}) = k - 1
           IN SubSeq(text, i, TokenEnd(text, i))]
  IN With(TokenStarts(text))

(***************************************************************************)
(* C19.  Scenario A: on a blank query over a schema with the number        *)
(* dimension age, addField(stage 0, "age") leaves the single stage with    *)
(* the field list [age], and the text of that tree reads, as tokens,       *)
(*   query: <source> { group_by: age }                                     *)
(***************************************************************************)
ScenarioA == [BLANK_QUERY EXCEPT !.pipeline[1].fields = <<Bare(<<"age">>)>>]
AddedAge ==
  /\ last.op = "addField"
  /\ last.q = BLANK_QUERY
  /\ last.args.path = Some(RootPath(0))
  /\ last.args.name = <<"age">>

C19_ScenarioA ==
  /\ AddedAge => ~last.err /\ query = ScenarioA
  /\ (RenderedBy({"getQueryStringForModel"}) /\ query = ScenarioA) =>
       Tokens(Result) = <<"query:", "flights", "{", "group_by:", "age", "}">>

\* As the code has it: the text bound to the schema carries the query's
\* name and an arrow before the stage block,
\*   query: new_query is <source> -> { group_by: age }
\* and the text for use inside a schema, under the name given, is
\*   query: <name> is { group_by: age }
C19_ScenarioANamedAndBound ==
  /\ AddedAge => ~last.err /\ query = ScenarioA
  /\ (RenderedBy({"getQueryStringForModel"}) /\ query = ScenarioA) =>
       Tokens(Result) = <<"query:", "new_query", "is", "flights", "->", "{",
                          "group_by:", "age", "}">>
  /\ (RenderedBy({"getQueryStringForSource"}) /\ query = ScenarioA) =>
       Tokens(Result) = <<"query:", Join(Val(output).args.name, "."), "is", "{",
                          "group_by:", "age", "}">>

\* the text of the scenario's tree was produced right after addField
C19_Witness ==
  /\ RenderedBy({"getQueryStringForModel"})
  /\ query = ScenarioA
  /\ steps = MaxRenderSteps - 2
  /\ Result = "query: new_query is flights -> {\n  group_by: age\n}"

(***************************************************************************)
(* C20.  Scenario B: for a stage with the fields [age, total], age a       *)
(* dimension and total a calculation, addOrderBy(stage, 0, "desc") leaves  *)
(* the field list as it was; the summary's orderByFields lists both        *)
(* fields (age at index 0, total at index 1); the summary holds one        *)
(* order_by item, for age with direction desc; and the text of the stage   *)
(* contains "order_by: age desc".                                          *)
(***************************************************************************)
ScenarioBFields == <<Bare(<<"age">>), Bare(<<"total">>)>>
ScenarioBBefore == [BLANK_QUERY EXCEPT !.pipeline[1].fields = ScenarioBFields]
ScenarioB ==
  [ScenarioBBefore EXCEPT
     !.pipeline[1].orderBy = Some(OwnOrder(<<Order(<<"age">>, "desc")>>))]
OrderedByAge ==
  /\ last.op = "addOrderBy"
  /\ last.q = ScenarioBBefore
  /\ last.args.path = Some(RootPath(0))
  /\ last.args.index = 0
  /\ last.args.dir = "desc"

\* the summary of the scenario's stage, from either summary call
ScenarioBSummary ==
  IF Val(output).op = "getQuerySummary" THEN Result.stages[1] ELSE Result
OrderByItems(summary) == SelectSeq(summary.items, LAMBDA item : item.type = "order_by")

C20_ScenarioB ==
  /\ OrderedByAge =>
       /\ ~last.err
       /\ query = ScenarioB
       /\ query.pipeline[1].fields = ScenarioBFields
  /\ (RenderedBy({"getQuerySummary", "getStageSummary"}) /\ query = ScenarioB) =>
       /\ ScenarioBSummary.orderByFields =
            << [name |-> <<"age">>, fieldIndex |-> 0, type |-> "number"],
               [name |-> <<"total">>, fieldIndex |-> 1, type |-> "number"] >>
       /\ OrderByItems(ScenarioBSummary) =
            << [type |-> "order_by",
                byField |-> [type |-> "number", fieldIndex |-> 0, name |-> <<"age">>],
                direction |-> "desc", orderByIndex |-> 0] >>
  /\ (RenderedBy(TextOps) /\ query = ScenarioB) =>
       Occurrences(Result, "order_by: age desc") # {}

\* the scenario's tree was built by addOrderBy and then summarised
C20_Witness ==
  /\ RenderedBy({"getQuerySummary"})
  /\ query = ScenarioB
  /\ Len(OrderByItems(ScenarioBSummary)) = 1
  /\ Len(ScenarioBSummary.orderByFields) = 2

\* ... and rendered as text
C20_WitnessText ==
  /\ RenderedBy({"getQueryStringForModel"})
  /\ query = ScenarioB
  /\ Occurrences(Result, "order_by: age desc") # {}

(***************************************************************************)
(* C21.  In every reachable state canRun() returns true if and only if the *)
(* first stage of the root pipeline has at least one field, whatever later *)
(* stages and nested queries hold; the isRunnable flag of getQueryStrings  *)
(* equals canRun().  A tree with no stage (setQuery of a named query that  *)
(* only names its head) has no first stage: canRun() throws there.         *)
(***************************************************************************)
FirstStageHasField(q) ==
  Len(q.pipeline) >= 1 /\ Len(q.pipeline[1].fields) >= 1

C21_CanRun ==
  /\ last.op = "canRun" =>
       /\ ~last.err
       /\ Val(output).result.value = FirstStageHasField(query)
  /\ last.op = "getQueryStrings" /\ ~last.err =>
       Val(output).result.value.isRunnable = FirstStageHasField(query)

\* the same for the trees that have a first stage
C21_CanRunWithFirstStage ==
  /\ last.op = "canRun" /\ Len(query.pipeline) >= 1 =>
       /\ ~last.err
       /\ Val(output).result.value = FirstStageHasField(query)
  /\ last.op = "getQueryStrings" /\ ~last.err =>
       Val(output).result.value.isRunnable = FirstStageHasField(query)

\* canRun() said yes for a tree whose last stage has no field
C21_Witness ==
  /\ last.op = "canRun"
  /\ ~last.err
  /\ Val(output).result.value
  /\ Len(query.pipeline) >= 2
  /\ Last(query.pipeline).fields = <<>>

(***************************************************************************)
(* C22.  The operations that auto-expand the stage they address promote    *)
(* both kinds of simple reference.  When the path passes through a field   *)
(* that is a bare name or a refined name (alias, private filters) of a     *)
(* nested query, the field is replaced at its index by a copy of the       *)
(* definition and the path then resolves; when the field does not resolve  *)
(* to a nested query the call fails and the tree is as before.             *)
(***************************************************************************)
AutoExpandOps ==
  {"addField", "addNewField", "addNewNestedQuery", "toggleField",
   "addFilter", "addLimit", "addOrderBy"}

\* the last call's path passes through a field that is no inline nested query
ThroughField ==
  /\ IsSome(last.args.path)
  /\ Len(CallPath.hops) = 1
  /\ InRange(last.q.pipeline, CallHop.s)
  /\ InRange(HopStage.fields, CallHop.f)
  /\ ~IsTurtleDef(HopStage.fields[CallHop.f + 1])

\* that field, before the call
HopField == HopStage.fields[CallHop.f + 1]

\* that field resolves, in the schema of its stage, to a nested query
HopResolvesToNestedQuery ==
  /\ ~sourceForStageAtPath(last.q, last.src, RootPath(CallHop.s)).err
  /\ ~HopDefinition.err
  /\ HopDefinition.def.type = "turtle"

\* a blank in the place of the field the path passes through
HopBlanked(q) ==
  [q EXCEPT !.pipeline[CallHop.s + 1].fields[CallHop.f + 1] = Bare(<<>>)]

\* the field was replaced, where it stood, by the definition, whose
\* addressed stage the call may have edited; the path resolves
PromotedInPlace ==
  /\ IsTurtleDef(HopFieldNow)
  /\ stageAtPath(query, CallPath).kind = "ok"
  /\ [HopFieldNow EXCEPT !.pipeline[CallPath.s + 1] = EmptyStage]
       = [HopDefinition.def EXCEPT !.pipeline[CallPath.s + 1] = EmptyStage]
  /\ HopBlanked(query) = HopBlanked(last.q)
  /\ source = last.src

C22_AutoExpandPromotes ==
  (last.op \in AutoExpandOps /\ ThroughField) =>
    IF HopField.k \in {"name", "fan"} /\ HopResolvesToNestedQuery
    THEN InRange(HopDefinition.def.pipeline, CallPath.s) => PromotedInPlace
    ELSE last.err /\ query = last.q /\ source = last.src

\* the same for a bare name only, where the addressed stage has the index
\* of the root stage that holds the name
C22_AutoExpandBareName ==
  (last.op \in AutoExpandOps /\ ThroughField) =>
    IF HopField.k \in {"name", "fan"} /\ HopResolvesToNestedQuery
    THEN (HopField.k = "name" /\ CallPath.s = CallHop.s
          /\ InRange(HopDefinition.def.pipeline, CallPath.s)) => PromotedInPlace
    ELSE last.err /\ query = last.q /\ source = last.src

\* a bare name was promoted and the addressed stage of the copy edited
C22_Witness ==
  /\ Succeeded(AutoExpandOps)
  /\ ThroughField
  /\ HopField.k = "name"
  /\ HopResolvesToNestedQuery
  /\ PromotedInPlace
  /\ HopFieldNow # HopDefinition.def

\* a path through a field that is no nested query was refused
C22_WitnessRefused ==
  /\ last.op \in AutoExpandOps
  /\ ThroughField
  /\ ~HopResolvesToNestedQuery
  /\ last.err

(***************************************************************************)
(* C23.  removeFilter(path, filterIndex, fieldIndex) on a refined          *)
(* reference removes exactly the filter at filterIndex of that field's     *)
(* own filter list, for every valid pair of indices, and leaves the other  *)
(* filters of the field, the stage's filter list and the other fields as   *)
(* they were; without a field index it removes exactly the stage's filter  *)
(* at filterIndex.                                                         *)
(***************************************************************************)
\* the stage the last call addressed, before the call
StageBefore == StageAt(last.q, CallPath)

\* removeFilter was called with the index of an existing filter of the
\* stage (no field index) or of a refined reference (field index)
RemovesStageFilter ==
  /\ last.op = "removeFilter"
  /\ stageAtPath(last.q, CallPath).kind = "ok"
  /\ last.args.index = -1
  /\ InRange(OrElse(StageBefore.filterList, <<>>), last.args.index2)

RemovesFieldFilter ==
  /\ last.op = "removeFilter"
  /\ stageAtPath(last.q, CallPath).kind = "ok"
  /\ InRange(StageBefore.fields, last.args.index)
  /\ StageBefore.fields[last.args.index + 1].k = "fan"
  /\ InRange(OrElse(StageBefore.fields[last.args.index + 1].filterList, <<>>),
             last.args.index2)

\* the tree of before the call without the addressed filter
WithoutStageFilter ==
  PutStage(last.q, CallPath,
    [StageBefore EXCEPT !.filterList = Some(Splice1(Val(@), last.args.index2))])

WithoutFieldFilter ==
  PutStage(last.q, CallPath,
    [StageBefore EXCEPT !.fields[last.args.index + 1].filterList =
       Some(Splice1(Val(@), last.args.index2))])

C23_RemoveFilter ==
  /\ RemovesStageFilter =>
       ~last.err /\ query = WithoutStageFilter /\ source = last.src
  /\ RemovesFieldFilter =>
       ~last.err /\ query = WithoutFieldFilter /\ source = last.src

\* the same, where a field's filter is addressed only with a filter index
\* that equals the field index
C23_RemoveFilterSameIndex ==
  /\ RemovesStageFilter =>
       ~last.err /\ query = WithoutStageFilter /\ source = last.src
  /\ RemovesFieldFilter /\ last.args.index = last.args.index2 =>
       ~last.err /\ query = WithoutFieldFilter /\ source = last.src

\* a filter of a refined reference was removed
C23_Witness ==
  /\ RemovesFieldFilter
  /\ ~last.err
  /\ query = WithoutFieldFilter

(***************************************************************************)
(* C24.  editFilter with a field index fails when the field is no refined  *)
(* reference (a bare name, an inline nested query, an inline expression)   *)
(* or has no filter list; without a field index it fails when the stage    *)
(* has no filter list.  A call that fails leaves the tree as it was.  A    *)
(* call that succeeds replaces exactly the filter at filterIndex of the    *)
(* addressed list and changes nothing else.                                *)
(***************************************************************************)
\* the field editFilter was called on, before the call
EditedField == StageBefore.fields[last.args.index + 1]

\* the tree of before the call with the addressed filter replaced
WithStageFilter ==
  PutStage(last.q, CallPath,
    [StageBefore EXCEPT !.filterList =
       Some([Val(@) EXCEPT ![last.args.index2 + 1] = Val(last.args.filter)])])

WithFieldFilter ==
  PutStage(last.q, CallPath,
    [StageBefore EXCEPT !.fields[last.args.index + 1].filterList =
       Some([Val(@) EXCEPT ![last.args.index2 + 1] = Val(last.args.filter)])])

C24_WitnessRefused ==
  /\ last.op = "editFilter"
  /\ last.err
  /\ stageAtPath(last.q, CallPath).kind = "ok"
  /\ last.args.index # -1
  /\ EditedField.k = "def"
  /\ EditedField.type # "turtle"

(***************************************************************************)
(* Texts of trees handed to the editor.  setQuery installs the pipeline of *)
(* the named query it is given, so every tree is a tree of the editor; the *)
(* runs here install one and render it.                                    *)
(***************************************************************************)
MaxTextSteps == 2
MaxTextFields == 3

\* an inline nested query that holds an inline nested query, with stage
\* filters, filters of a field, a limit and a second stage
DeepNest ==
  Turtle(<<"nq">>,
    << MkStage("reduce",
         << Bare(<<"age">>),
            Turtle(<<"inner">>,
              << MkStage("reduce",
                   << Fan(<<"total">>, Some(<<"a1">>), Some(<<FilterA, FilterB>>)) >>,
                   Some(<<FilterA>>), Some(5), None, None) >>) >>,
         Some(<<FilterA, FilterB>>), None, None, None),
       MkStage("reduce", <<Bare(<<"age">>)>>, None, None, None, None) >>)

\* the fields the stage 0 of such a tree is made of, two of each bucket
TextFields ==
  { Bare(<<"age">>),
    Fan(<<"age">>, Some(<<"a1">>), Some(<<FilterA, FilterB>>)),
    Bare(<<"total">>),
    Fan(<<"total">>, None, Some(<<FilterA>>)),
    Bare(<<"by_region">>),
    DeepNest }

TextFieldLists == UNION {[1..n -> TextFields] : n \in 0..MaxTextFields}

TextFilterLists == {None, Some(<<FilterA>>), Some(<<FilterA, FilterB>>)}

\* a limit and an ordering, or neither
TextLimits == {None, Some(5)}

\* stage 0, and the stages that may follow it
TextTails ==
  {<<>>, <<MkStage("reduce", <<Bare(<<"age">>)>>, None, None, None, None)>>}

TextQueries ==
  { MkQuery(<<"saved_q">>,
      << MkStage("reduce", fields, filterList, limit,
                 IF limit = None THEN None
                 ELSE Some(OwnOrder(<<Order(<<"age">>, "desc")>>)), None) >>
      \o tail) :
    fields \in TextFieldLists, filterList \in TextFilterLists,
    limit \in TextLimits, tail \in TextTails }

\* setQuery on a fresh editor
SetTree ==
  \E named \in TextQueries :
    /\ last.op = "new"
    /\ Step("setQuery", [NoArgs EXCEPT !.name = named.name],
            setQuery(query, source, named))

InitText ==
  /\ query = BLANK_QUERY
  /\ source = InitialSource
  /\ last = Call("new", NoArgs, BLANK_QUERY, InitialSource, FALSE)
  /\ steps = MaxTextSteps
  /\ held = None
  /\ output = None

NextText ==
  \/ SetTree
  \/ GetQueryStringForModel
  \/ GetQueryStringForSource
  \/ GetQueryStringForMarkdown

SpecText == InitText /\ [][NextText]_vars

(***************************************************************************)
(* C25.  In the text of a stage the fields stand in the order of the       *)
(* stage's field list, and the property clauses (group_by, aggregate,      *)
(* nest) are the maximal runs of neighbouring fields of one property, one  *)
(* clause per run, in order: a property that occurs in two runs that do    *)
(* not touch is written twice.                                             *)
(***************************************************************************)
\* what the fields of a stage are written as, in field order (a field that
\* codeInfoForField gives nothing for is not written)
StageInfos(root, stage, src) ==
  LET Defined(infos) == [i \in 1..Len(infos) |-> Val(infos[i])]
  IN Defined(SelectSeq([i \in 1..Len(stage.fields) |->
                          codeInfoForField(root, stage.fields[i], src)], IsSome))

\* the maximal runs of equal neighbours in a sequence b, in order
RunStarts(b) == {i \in 1..Len(b) : i = 1 \/ b[i] # b[i - 1]}
RunEnd(b, i) ==
  CHOOSE j \in i..Len(b) :
    /\ \A k \in i..j : b[k] = b[i]
    /\ j = Len(b) \/ b[j + 1] # b[i]
Runs(b) ==
  LET With(starts) ==
        [k \in 1..Cardinality(starts) |->
           LET i == CHOOSE i \in starts : Cardinality({j \in starts : j < i}) = k - 1
           IN [lo |-> i, hi |-> RunEnd(b, i)]]
  IN With(RunStarts(b))

Properties(infos) == [i \in 1..Len(infos) |-> infos[i].property]

\* one clause per run, each holding the fields of its run in order
ClausesByRuns(infos) ==
  LET With(runs) ==
        Flat([k \in 1..Len(runs) |->
                writeMalloyForPropertyValues(infos[runs[k].lo].property,
                  [j \in 1..(runs[k].hi - runs[k].lo + 1) |->
                     infos[runs[k].lo + j - 1].malloy])])
  IN With(Runs(Properties(infos)))

\* the properties of the clauses of a stage's own fields, as its fragments
\* name them, in order
ClauseHeadAt(fragments, i) ==
  /\ fragments[i].m = ""
  /\ fragments[i].s \in {"group_by", "aggregate", "nest"}
  /\ i < Len(fragments)
  /\ fragments[i + 1] = S(": ")
  /\ IndentAt(fragments, i) = 1
ClauseHeads(fragments) ==
  LET Head1(sel) == [k \in 1..Len(sel) |-> fragments[sel[k]].s]
  IN Head1(SelectSeq([i \in 1..Len(fragments) |-> i],
                     LAMBDA i : ClauseHeadAt(fragments, i)))

\* part stands in fragments as a stretch of neighbours
Contains(fragments, part) ==
  \E i \in 0..(Len(fragments) - Len(part)) :
    SubSeq(fragments, i + 1, i + Len(part)) = part

\* the stage paths of the tree that resolve, schema included
StagePaths ==
  {path \in Paths(query) :
     /\ stageAtPath(query, path).kind = "ok"
     /\ ~sourceForStageAtPath(query, source, path).err}

ClausesAreRuns(root, stage, src) ==
  LET With(fragments, infos) ==
        /\ ClauseHeads(fragments)
             = [k \in 1..Len(Runs(Properties(infos))) |->
                  infos[Runs(Properties(infos))[k].lo].property]
        /\ Contains(fragments, ClausesByRuns(infos))
  IN With(getMalloyStringForStage(root, stage, src), StageInfos(root, stage, src))

C25_ClausesAreRuns ==
  RenderedBy(TextOps) =>
    \A path \in StagePaths :
      ClausesAreRuns(source, StageAt(query, path),
                     sourceForStageAtPath(query, source, path).def)

\* a text was made of a stage that has group_by fields on both sides of an
\* aggregate, and it has the three clauses
C25_Witness ==
  /\ RenderedBy(TextOps)
  /\ Len(query.pipeline) >= 1
  /\ Properties(StageInfos(source, query.pipeline[1], source))
       = <<"group_by", "aggregate", "group_by">>
  /\ ClauseHeads(getMalloyStringForStage(source, query.pipeline[1], source))
       = <<"group_by", "aggregate", "group_by">>
  /\ Occurrences(Result, "group_by: ") # {}

(***************************************************************************)
(* Lookups of dotted paths in schemas that hold nested queries inside a    *)
(* joined structure.                                                       *)
(***************************************************************************)
MaxResolveSteps == 1
MaxSegments == 3

\* a schema whose joined structure sub has fields and nested queries of
\* its own; age is a number in the schema and a string in sub
NestedSource ==
  Struct(<<"flights">>,
    << Scalar(<<"age">>, "number", FALSE, ""),
       Turtle(<<"by_age">>,
         <<MkStage("reduce", <<Bare(<<"age">>)>>, None, None, None, None)>>),
       Struct(<<"sub">>,
         << Scalar(<<"x">>, "string", FALSE, ""),
            Scalar(<<"age">>, "string", FALSE, ""),
            Turtle(<<"by_x">>,
              <<MkStage("reduce", <<Bare(<<"x">>)>>, None, None, None, None)>>),
            Turtle(<<"by_age">>,
              <<MkStage("reduce", <<Bare(<<"age">>)>>, None, None, None, None)>>)
         >>) >>)

ResolveSchemas == {InitialSource, NestedSource}

Segments == {"age", "x", "sub", "by_x", "by_age", "by_region", "bogus"}
ResolvePaths == UNION {[1..n -> Segments] : n \in 1..MaxSegments}

\* SourceUtils.getField as a call on the editor's schema
ResolveField ==
  \E path \in ResolvePaths :
    /\ steps > 0
    /\ output' = Some([op |-> "getField", args |-> [name |-> path],
                       result |-> getField(source, source, path)])
    /\ last' = Call("getField", [NoArgs EXCEPT !.name = path], query, source,
                    getField(source, source, path).err)
    /\ steps' = steps - 1
    /\ UNCHANGED <<query, source, held>>

InitResolve ==
  /\ query = BLANK_QUERY
  /\ source \in ResolveSchemas
  /\ last = Call("new", NoArgs, BLANK_QUERY, source, FALSE)
  /\ steps = MaxResolveSteps
  /\ held = None
  /\ output = None

NextResolve == ResolveField

SpecResolve == InitResolve /\ [][NextResolve]_vars

(***************************************************************************)
(* C26.  The lookup of a dotted path, at a segment before the last that    *)
(* names a nested query, goes on in the schema in which that segment was   *)
(* found (a joined structure reached by the segments before it, say)       *)
(* projected through the stages of the query's pipeline in order; a        *)
(* segment before the last that names a leaf fails as an invalid path, an  *)
(* absent segment fails as a field not found.                              *)
(***************************************************************************)
\* the lookup as the sentence has it: current is the schema the segment is
\* looked up in
RECURSIVE ResolveInCurrent(_, _)
ResolveInCurrent(current, path) ==
  LET Through(projected) ==
        IF projected.type = "error" THEN Thrown
        ELSE ResolveInCurrent(projected, Tail(path))
      Inner(found) ==
        IF found.type = "struct" THEN ResolveInCurrent(found, Tail(path))
        ELSE IF found.type = "turtle"
             THEN Through(ProjectPipeline(current, found.pipeline))
             ELSE ThrownAs("Inner segment in path is not a source")
      With(i) ==
        IF i = -1 THEN ThrownAs("Could not find")
        ELSE IF Len(path) = 1 THEN Found(current.fields[i + 1])
        ELSE Inner(current.fields[i + 1])
  IN With(FindField(current.fields, Head(path)))

\* the walk of path meets, before its last segment, a nested query in a
\* schema that is not the root
RECURSIVE QueryBelowRoot(_, _, _)
QueryBelowRoot(current, path, below) ==
  LET With(i) ==
        IF i = -1 \/ Len(path) = 1 THEN FALSE
        ELSE IF current.fields[i + 1].type = "struct"
        THEN QueryBelowRoot(current.fields[i + 1], Tail(path), TRUE)
        ELSE current.fields[i + 1].type = "turtle" /\ below
  IN With(FindField(current.fields, Head(path)))

C26_ResolveInCurrentSchema ==
  (last.op = "getField") =>
    Val(output).result = ResolveInCurrent(last.src, last.args.name)

\* the same for the paths that meet a nested query in the root schema only
C26_ResolveInRootSchema ==
  (last.op = "getField" /\ ~QueryBelowRoot(last.src, last.args.name, FALSE)) =>
    Val(output).result = ResolveInCurrent(last.src, last.args.name)

\* a path through a nested query of the root schema was resolved
C26_Witness ==
  /\ last.op = "getField"
  /\ ~last.err
  /\ last.args.name = <<"by_age", "age">>
  /\ Val(output).result.def.type = "number"

\* a leaf before the last segment, and an absent segment, were refused
C26_WitnessInvalid ==
  /\ last.op = "getField"
  /\ last.args.name = <<"age", "x">>
  /\ Val(output).result.error = "Inner segment in path is not a source"
C26_WitnessAbsent ==
  /\ last.op = "getField"
  /\ last.args.name = <<"sub", "bogus">>
  /\ Val(output).result.error = "Could not find"

(***************************************************************************)
(* C27.  Inserting a field that resolves into a stage that holds fields    *)
(* which do not resolve in the stage's schema succeeds: those fields are   *)
(* passed over when the index is chosen (none of them is the field of      *)
(* higher rank the new one is put before), they keep their places          *)
(* relative to the others, and the stage has exactly one field more.       *)
(***************************************************************************)
\* the last call inserted a field that resolves into a stage that resolves
InsertsResolvable ==
  /\ last.op \in InsertOps
  /\ ~autoExpandStageAtPath(last.q, last.src, CallPath).err
  /\ RankAt(Expanded, last.src, CallPath, Inserted) >= 0

\* the indices (1-based) of the fields of that stage that do not resolve
UnresolvedIn(F) ==
  {j \in 1..Len(F) : RankAt(Expanded, last.src, CallPath, F[j]) = -1}

\* new is F with field put in at index i (0-based), which is the end or
\* the place of a field that resolves, of higher rank; no resolving field
\* before it has a higher rank
InsertedPastUnresolved(F, new, field, rankOf(_)) ==
  \E i \in 0..Len(F) :
    /\ new = SubSeq(F, 1, i) \o <<field>> \o SubSeq(F, i + 1, Len(F))
    /\ i < Len(F) => rankOf(F[i + 1]) >= 0 /\ rankOf(F[i + 1]) > rankOf(field)
    /\ \A j \in 1..i : rankOf(F[j]) <= rankOf(field)

C27_InsertPastUnresolved ==
  (InsertsResolvable /\ UnresolvedIn(FieldsAt(Expanded, CallPath)) # {}) =>
    /\ ~last.err
    /\ Len(FieldsAt(query, CallPath)) = Len(FieldsAt(Expanded, CallPath)) + 1
    /\ InsertedPastUnresolved(FieldsAt(Expanded, CallPath), FieldsAt(query, CallPath),
                              Inserted,
                              LAMBDA f : RankAt(Expanded, last.src, CallPath, f))

\* a dimension was put after a field that does not resolve
C27_Witness ==
  /\ InsertsResolvable
  /\ ~last.err
  /\ 1 \in UnresolvedIn(FieldsAt(Expanded, CallPath))
  /\ RankAt(Expanded, last.src, CallPath, Inserted) = 0
  /\ FieldsAt(query, CallPath) = Append(FieldsAt(Expanded, CallPath), Inserted)

(***************************************************************************)
(* C28.  After any sequence of editor operations from a blank query,       *)
(* every order-by entry of every stage names the current display name of   *)
(* a field of that stage.                                                  *)
(***************************************************************************)
RECURSIVE OrdersNameFields(_, _)
OrdersNameFields(pipeline, src) ==
  \A s \in 1..Len(pipeline) :
    /\ \A j \in 1..Len(OrderList(pipeline[s], src)) :
         \E i \in 1..Len(pipeline[s].fields) :
           nameOf(pipeline[s].fields[i]) = OrderList(pipeline[s], src)[j].field
    /\ \A i \in 1..Len(pipeline[s].fields) :
         IsTurtleDef(pipeline[s].fields[i]) =>
           OrdersNameFields(pipeline[s].fields[i].pipeline, src)

C28_OrderByNamesField == OrdersNameFields(query.pipeline, source)

\* the same after a call that is none of those that leave an entry behind
C28_OrderByKept ==
  (last.op \in {"addField", "addNewField", "addNewNestedQuery", "renameField",
                "addOrderBy", "editOrderBy", "removeOrderBy", "reorderFields",
                "addFilter", "removeLimit", "addStage"}
   /\ OrdersNameFields(last.q.pipeline, last.src)) =>
    OrdersNameFields(query.pipeline, source)

(***************************************************************************)
(* C29.  The summary of a stage in which a scalar field carries an alias   *)
(* that is no field name of the schema, and an order-by entry names that   *)
(* field: the summary is produced, and it holds exactly one order_by item  *)
(* for the entry, whose field index is the renamed field's and whose name  *)
(* is the alias.                                                           *)
(***************************************************************************)
\* field i of the summarised stage is a renamed scalar field of the schema
RenamedScalar(i) ==
  /\ SummarisedStage.fields[i].k = "fan"
  /\ IsSome(SummarisedStage.fields[i].as)
  /\ getField(source, SummarisedSource, Val(SummarisedStage.fields[i].as)).err
  /\ ~ResolvesAt(i).err
  /\ ResolvesAt(i).def.type \notin {"struct", "turtle"}

\* entry j of the stage's order-by names field i, the first of that name
OrdersField(j, i) ==
  /\ SummarisedStage.type = "reduce"
  /\ j \in 1..Len(OrderList(SummarisedStage, source))
  /\ FindIndex(SummarisedStage.fields,
               LAMBDA f : nameOf(f) = OrderList(SummarisedStage, source)[j].field) = i - 1

RenamedOrders ==
  {e \in (1..Len(SummarisedStage.fields)) \X (1..MaxOrderBy) :
     RenamedScalar(e[1]) /\ OrdersField(e[2], e[1])}

StageSummarised == IsSome(output) /\ Val(output).op = "getStageSummary"

\* the order_by items of the summary made for entry j
ItemsOfEntry(j) ==
  SelectSeq(Val(output).result.value.items,
            LAMBDA item : item.type = "order_by" /\ item.orderByIndex = j - 1)

C29_RenamedOrderBy ==
  (StageSummarised /\ RenamedOrders # {}) =>
    /\ ~Val(output).result.err
    /\ \A e \in RenamedOrders :
         /\ Len(ItemsOfEntry(e[2])) = 1
         /\ ItemsOfEntry(e[2])[1].byField.fieldIndex = e[1] - 1
         /\ ItemsOfEntry(e[2])[1].byField.name = Val(SummarisedStage.fields[e[1]].as)

\* what the code does for such a stage: the order-by loop looks the alias
\* up in the schema, and the summary throws
C29_RenamedOrderByThrows ==
  (StageSummarised /\ RenamedOrders # {}) => Val(output).result.err

\* a field was renamed, the stage is ordered by it, and the stage was summarised
C29_Witness ==
  /\ StageSummarised
  /\ RenamedOrders # {}
  /\ Val(output).result.err

(***************************************************************************)
(* C30.  Layout markers are balanced: the fragments handed to              *)
(* codeFromFragments for a tree hold, in every prefix, at least as many    *)
(* INDENTs as OUTDENTs, and as many of the one as of the other in all, so  *)
(* the indent depth is never negative and is 0 at the end of the text.     *)
(***************************************************************************)
StreamOps == {"getQueryStringForModel", "getQueryStringForSource"}

\* the array malloy of getMalloyString at its return, for the call that
\* was made
MalloyFragments ==
  LET forSource == Val(output).op = "getQueryStringForSource"
      name == IF forSource THEN Val(output).args.name ELSE query.name
  IN <<S(Join(<<"query:", maybeQuoteIdentifier(name) \o " is">>
              \o (IF forSource THEN <<>>
                  ELSE <<maybeQuoteIdentifier(DisplayName(source))>>),
              " "))>>
     \o RootStages(source, query.pipeline, source, forSource)

\* the indent depth after each prefix of the fragments
Depths(fragments) ==
  [i \in 1..(Len(fragments) + 1) |-> IndentAt(fragments, i)]

Balanced(fragments) ==
  /\ \A i \in 1..(Len(fragments) + 1) : Depths(fragments)[i] >= 0
  /\ Depths(fragments)[Len(fragments) + 1] = 0

C30_MarkersBalanced ==
  RenderedBy(StreamOps) =>
    /\ Result = codeFromFragments(MalloyFragments)
    /\ Balanced(MalloyFragments)

\* a tree with a nested query inside a nested query, two filters on a
\* stage and two on a field was rendered: the depth went to 5 and back
C30_Witness ==
  /\ RenderedBy(StreamOps)
  /\ Len(OrElse(query.pipeline[1].filterList, <<>>)) = 2
  /\ \E i \in 1..Len(query.pipeline[1].fields) : query.pipeline[1].fields[i] = DeepNest
  /\ \E i \in 1..(Len(MalloyFragments) + 1) : Depths(MalloyFragments)[i] >= 5
  /\ Balanced(MalloyFragments)

(***************************************************************************)
(* C31.  Edits are atomic on failure: after an editor operation that       *)
(* threw, the query tree is the tree that existed before the call.         *)
(***************************************************************************)
C31_AtomicOnFailure == last.err => query = last.q

\* the calls that change the tree before they throw
LeavingChange == {"loadQuery", "addField", "toggleField", "editOrderBy"}

\* every other call that threw left the tree as it was
C31_AtomicElsewhere ==
  (last.err /\ last.op \notin LeavingChange) => query = last.q

\* loadQuery threw at a later stage and an earlier stage stays merged
C31_PartialMerge ==
  /\ last.op = "loadQuery"
  /\ last.err
  /\ Len(query.pipeline) = 2
  /\ query.pipeline[2] = last.q.pipeline[2]
  /\ query.pipeline[1] # last.q.pipeline[1]

\* addField through a reference to a nested query threw, for a field that
\* does not resolve there, and the reference stays a definition
C31_PromotionLeft ==
  /\ last.op = "addField"
  /\ last.err
  /\ IsSome(last.args.path)
  /\ Len(CallPath.hops) = 1
  /\ HopStage.fields[CallHop.f + 1].k = "name"
  /\ IsTurtleDef(HopFieldNow)

\* addStage on a field that is no query threw, and changed nothing
C31_AddStageRefused ==
  /\ last.op = "addStage"
  /\ last.err
  /\ IsSome(last.args.path)
  /\ stageAtPath(last.q, CallPath).kind = "ok"
  /\ query = last.q

====
